---- MODULE Spec2Model ----
(***************************************************************************)
(* A model of the PostgreSQL storage backend of Grafeas (PgSQLStore):      *)
(* the record store (projects, notes, occurrences), its paginated List     *)
(* operations and the fernet-based pagination cursor.                      *)
(***************************************************************************)
EXTENDS Integers, Sequences, FiniteSets, TLC

(***************************************************************************)
(* Bounds of the model.                                                    *)
(***************************************************************************)
\* rows inserted in all, over the three tables
MaxRows == 2
\* the wall clock runs over 1..MaxTime (one unit is one hour)
MaxTime == 2
\* page sizes range over 0..MaxPageSize (the List actions call with 1..MaxPageSize)
MaxPageSize == 2
\* the hours during which the tables of a listing are written
LoadBy == 1

Pids == {"p1", "p2"}
Nids == {"n1", "n2"}
Oids == {"o1", "o2"}
Bodies == {"A", "B"}

(***************************************************************************)
(* Resource names (github.com/grafeas/grafeas/go/name), as path segments.  *)
(***************************************************************************)
FormatProject(pID) == <<"projects", pID>>

FormatNote(pID, nID) == <<"projects", pID, "notes", nID>>

FormatOccurrence(pID, oID) == <<"projects", pID, "occurrences", oID>>

ParseNote(n) ==
    IF Len(n) = 4 /\ n[1] = "projects" /\ n[3] = "notes"
    THEN [ok |-> TRUE, pID |-> n[2], nID |-> n[4]]
    ELSE [ok |-> FALSE, pID |-> "", nID |-> ""]

(***************************************************************************)
(* Protobuf messages and their text form.  One record shape stands for     *)
(* Project, Note and Occurrence: body stands for every field the store     *)
(* never touches, noteName is used by occurrences only.                    *)
(***************************************************************************)
NoTime == 0

Fields == <<"name", "noteName", "body", "createTime", "updateTime">>

EmptyMsg ==
    [name |-> <<>>, noteName |-> <<>>, body |-> "", createTime |-> NoTime,
     updateTime |-> NoTime]

\* proto.MarshalTextString: one "field: value" entry per field that is set
MarshalTextString(m) ==
    LET all == [i \in 1..Len(Fields) |-> <<Fields[i], m[Fields[i]]>>]
        IsSet(p) == p[2] # EmptyMsg[p[1]]
    IN  SelectSeq(all, IsSet)

\* proto.UnmarshalText: fields that are absent keep their zero value
UnmarshalText(t) ==
    LET Has(f) == \E i \in 1..Len(t) : t[i][1] = f
        Val(f) == t[CHOOSE i \in 1..Len(t) : t[i][1] = f][2]
    IN  [name       |-> IF Has("name") THEN Val("name") ELSE EmptyMsg.name,
         noteName   |-> IF Has("noteName") THEN Val("noteName") ELSE EmptyMsg.noteName,
         body       |-> IF Has("body") THEN Val("body") ELSE EmptyMsg.body,
         createTime |-> IF Has("createTime") THEN Val("createTime") ELSE EmptyMsg.createTime,
         updateTime |-> IF Has("updateTime") THEN Val("updateTime") ELSE EmptyMsg.updateTime]

(***************************************************************************)
(* strconv.FormatInt / strconv.ParseInt in base 10, on digit strings.      *)
(***************************************************************************)
DigitChars == <<"0", "1", "2", "3", "4", "5", "6", "7", "8", "9">>

RECURSIVE Digits(_)
Digits(n) ==
    IF n < 10 THEN <<DigitChars[n + 1]>>
    ELSE Digits(n \div 10) \o <<DigitChars[(n % 10) + 1]>>

\* FormatInt that loses the sign
FormatIntUnsigned(v) == Digits(IF v < 0 THEN 0 - v ELSE v)

FormatInt(v) == IF v < 0 THEN <<"-">> \o Digits(0 - v) ELSE Digits(v)

IsDigit(c) == \E d \in 1..10 : DigitChars[d] = c

DigitVal(c) == (CHOOSE d \in 1..10 : DigitChars[d] = c) - 1

RECURSIVE DigitsVal(_)
DigitsVal(s) ==
    IF Len(s) = 0 THEN 0
    ELSE 10 * DigitsVal(SubSeq(s, 1, Len(s) - 1)) + DigitVal(s[Len(s)])

ParseInt(s) ==
    LET signed == Len(s) > 0 /\ s[1] \in {"+", "-"}
        ds == IF signed THEN Tail(s) ELSE s
    IN  IF Len(ds) > 0 /\ \A i \in 1..Len(ds) : IsDigit(ds[i])
        THEN [ok |-> TRUE,
              v |-> IF signed /\ s[1] = "-" THEN 0 - DigitsVal(ds) ELSE DigitsVal(ds)]
        ELSE [ok |-> FALSE, v |-> 0]

(***************************************************************************)
(* Fernet keys and tokens (github.com/fernet/fernet-go).  A key string is  *)
(* described by its encoding, the number of bytes it decodes to and the    *)
(* key material; a token by its timestamp, signing key and plaintext.      *)
(***************************************************************************)
KeyLen == 32
Hour == 1

EmptyKey == [enc |-> "empty", len |-> 0, mat |-> ""]
InvalidValue == [enc |-> "none", len |-> 0, mat |-> ""]
ShortKey == [enc |-> "base64url", len |-> 16, mat |-> "s"]
KeyA == [enc |-> "base64url", len |-> 32, mat |-> "a"]
KeyB == [enc |-> "base64std", len |-> 32, mat |-> "b"]
KeyAHex == [enc |-> "hex", len |-> 32, mat |-> "a"]

\* fernet.DecodeKey: hexadecimal, standard or URL-safe base64 of exactly 32 bytes
DecodeKey(k) ==
    IF k.enc \in {"hex", "base64std", "base64url"} /\ k.len = KeyLen
    THEN [ok |-> TRUE, key |-> k.mat]
    ELSE [ok |-> FALSE, key |-> ""]

EmptyToken == [kind |-> "empty", ts |-> 0, key |-> "", msg |-> <<>>]
GarbageToken == [kind |-> "garbage", ts |-> 0, key |-> "", msg |-> <<>>]

\* fernet.EncryptAndSign at time at
EncryptAndSign(msg, k, at) == [kind |-> "fernet", ts |-> at, key |-> k, msg |-> msg]

\* VerifyAndDecrypt that does not look at the age of the token
VerifyAndDecryptAnyAge(tok, ttl, k, at) ==
    IF tok.kind = "fernet" /\ tok.key = k /\ ~(tok.ts > at)
    THEN [ok |-> TRUE, bytes |-> tok.msg]
    ELSE [ok |-> FALSE, bytes |-> <<>>]

\* fernet.VerifyAndDecrypt(tok, ttl, {k}) at time at: nil unless the token is
\* well formed, signed with k, not older than ttl and not from the future
VerifyAndDecrypt(tok, ttl, k, at) ==
    IF /\ tok.kind = "fernet"
       /\ tok.key = k
       /\ ~(at > tok.ts + ttl)
       /\ ~(tok.ts > at)
    THEN [ok |-> TRUE, bytes |-> tok.msg]
    ELSE [ok |-> FALSE, bytes |-> <<>>]

\* encryptInt64 that encodes the id after v
encryptInt64Next(v, key, at) ==
    LET k == DecodeKey(key)
    IN  IF ~k.ok THEN [ok |-> FALSE, token |-> EmptyToken]
        ELSE [ok |-> TRUE, token |-> EncryptAndSign(FormatInt(v + 1), k.key, at)]

encryptInt64(v, key, at) ==
    LET k == DecodeKey(key)
    IN  IF ~k.ok THEN [ok |-> FALSE, token |-> EmptyToken]
        ELSE [ok |-> TRUE, token |-> EncryptAndSign(FormatInt(v), k.key, at)]

\* decryptInt64 that gives the default for every token
decryptInt64Default(encrypted, key, defaultValue, at) == defaultValue

decryptInt64(encrypted, key, defaultValue, at) ==
    LET k == DecodeKey(key)
        bytes == VerifyAndDecrypt(encrypted, Hour, k.key, at)
        parsed == ParseInt(bytes.bytes)
    IN  IF ~k.ok THEN defaultValue
        ELSE IF ~bytes.ok THEN defaultValue
        ELSE IF ~parsed.ok THEN defaultValue
        ELSE parsed.v

(***************************************************************************)
(* State.                                                                  *)
(*   projects, notes, occurrences  the three tables, as sets of rows       *)
(*   seq    the serial id last handed out, per table                       *)
(*   now    the wall clock (hours)                                         *)
(*   pg     the store of each server replica: whether it is constructed,   *)
(*          and its pagination key                                         *)
(*   boot   the last call of NewStoreWithCustomConnector and its outcome   *)
(*   res    the last store call: its name, its status code, how many rows  *)
(*          it returned and whether it gave a next-token                   *)
(*   cur    the last call of encryptInt64 / decryptInt64 and what it gave   *)
(*   batch  the batch-create call in flight: the items its loop has yet to *)
(*          create and what it has gathered so far                         *)
(*   scan   the List call in flight between its page query and its max-id  *)
(*          query: the rows the page query returned                        *)
(*   fs     a FilterSQL value: its selection-depth counter, and the last   *)
(*          filter it compiled with what came of it                        *)
(*   walk   a client that lists by following next-tokens: the List call it *)
(*          is in, the token it holds, the ids it was given so far, and    *)
(*          the ids that matched before its first page query               *)
(***************************************************************************)
VARIABLES projects, notes, occurrences, seq, now, pg, boot, res, cur, batch, scan, fs,
          walk

tables == <<projects, notes, occurrences, seq>>

vars ==
    <<projects, notes, occurrences, seq, now, pg, boot, res, cur, batch, scan, fs, walk>>

Replicas == {"r1", "r2"}

Inserted == seq.projects + seq.notes + seq.occurrences

Tick(limit) ==
    /\ now < limit
    /\ now' = now + 1
    /\ UNCHANGED <<tables, pg, boot, res, cur, batch, scan, fs, walk>>

(***************************************************************************)
(* The SQL statements and the schema.  Tables are projects(id, name),      *)
(* notes(id, project_id, note_id, data) and occurrences(id, project_id,    *)
(* occurrence_id, note_project_id, note_id, data); id is a serial column,  *)
(* name, (project_id, note_id) and (project_id, occurrence_id) are unique. *)
(* A statement gives err (the SQLSTATE, "" for none), the table afterwards,*)
(* the number of rows affected and the serial counter afterwards.          *)
(***************************************************************************)
Stmt(err, rows, count, last) == [err |-> err, rows |-> rows, count |-> count, last |-> last]

insertProject(name) ==
    IF \E r \in projects : r.name = name
    THEN Stmt("23505", projects, 0, seq.projects)
    ELSE Stmt("", projects \cup {[id |-> seq.projects + 1, name |-> name]}, 1,
              seq.projects + 1)

deleteProject(name) ==
    LET hit == {r \in projects : r.name = name}
    IN  Stmt("", projects \ hit, Cardinality(hit), seq.projects)

projectExists(name) == \E r \in projects : r.name = name

insertNote(pID, nID, data) ==
    IF \E r \in notes : r.project_id = pID /\ r.note_id = nID
    THEN Stmt("23505", notes, 0, seq.notes)
    ELSE Stmt("", notes \cup {[id |-> seq.notes + 1, project_id |-> pID,
                               note_id |-> nID, data |-> data]}, 1, seq.notes + 1)

deleteNote(pID, nID) ==
    LET hit == {r \in notes : r.project_id = pID /\ r.note_id = nID}
    IN  Stmt("", notes \ hit, Cardinality(hit), seq.notes)

updateNote(data, pID, nID) ==
    LET hit == {r \in notes : r.project_id = pID /\ r.note_id = nID}
    IN  Stmt("", (notes \ hit) \cup {[r EXCEPT !.data = data] : r \in hit},
             Cardinality(hit), seq.notes)

searchNote(pID, nID) == {r \in notes : r.project_id = pID /\ r.note_id = nID}

insertOccurrence(pID, oID, nPID, nID, data) ==
    IF \E r \in occurrences : r.project_id = pID /\ r.occurrence_id = oID
    THEN Stmt("23505", occurrences, 0, seq.occurrences)
    ELSE Stmt("", occurrences \cup
                   {[id |-> seq.occurrences + 1, project_id |-> pID,
                     occurrence_id |-> oID, note_project_id |-> nPID,
                     note_id |-> nID, data |-> data]}, 1, seq.occurrences + 1)

deleteOccurrence(pID, oID) ==
    LET hit == {r \in occurrences : r.project_id = pID /\ r.occurrence_id = oID}
    IN  Stmt("", occurrences \ hit, Cardinality(hit), seq.occurrences)

updateOccurrence(data, pID, oID) ==
    LET hit == {r \in occurrences : r.project_id = pID /\ r.occurrence_id = oID}
    IN  Stmt("", (occurrences \ hit) \cup {[r EXCEPT !.data = data] : r \in hit},
             Cardinality(hit), seq.occurrences)

searchOccurrence(pID, oID) ==
    {r \in occurrences : r.project_id = pID /\ r.occurrence_id = oID}

(***************************************************************************)
(* The database call of a store method either runs its statement or fails: *)
(* fault "pq" is an error reported by the server (a *pq.Error with a code  *)
(* other than 23505), fault "conn" an error that is no *pq.Error (a broken *)
(* connection, a cancelled or expired context).                            *)
(***************************************************************************)
Faults == {"none", "pq", "conn"}

ExecErr(st, fault) == IF fault = "none" THEN st.err ELSE fault

IsPqError(err) == err \in {"23505", "pq"}

(***************************************************************************)
(* The store methods.  Each gives the status code, what is returned and    *)
(* the tables afterwards.                                                  *)
(***************************************************************************)
Ret(code, out) ==
    [code |-> code, out |-> out, items |-> <<>>, ids |-> <<>>, next |-> EmptyToken,
     projects |-> projects, notes |-> notes, occurrences |-> occurrences, seq |-> seq]

CreateProject(pID, p, fault) ==
    LET st == insertProject(FormatProject(pID))
        err == ExecErr(st, fault)
    IN  IF IsPqError(err)
        THEN IF err = "23505" THEN Ret("AlreadyExists", EmptyMsg)
             ELSE Ret("Internal", EmptyMsg)
        ELSE IF err = ""
             THEN [Ret("OK", p) EXCEPT !.projects = st.rows, !.seq.projects = st.last]
             ELSE Ret("OK", p)

DeleteProject(pID, fault) ==
    LET st == deleteProject(FormatProject(pID))
        err == ExecErr(st, fault)
    IN  IF err # "" THEN Ret("Internal", EmptyMsg)
        ELSE IF st.count = 0 THEN Ret("NotFound", EmptyMsg)
        ELSE [Ret("OK", EmptyMsg) EXCEPT !.projects = st.rows]

GetProject(pID, fault) ==
    IF fault # "none" THEN Ret("Internal", EmptyMsg)
    ELSE IF ~projectExists(FormatProject(pID)) THEN Ret("NotFound", EmptyMsg)
    ELSE Ret("OK", [EmptyMsg EXCEPT !.name = FormatProject(pID)])

\* CreateNote that takes a uniqueness violation for success
CreateNoteIgnoresDuplicate(pID, nID, n, fault) ==
    LET n1 == [n EXCEPT !.name = FormatNote(pID, nID), !.createTime = now]
        st == insertNote(pID, nID, MarshalTextString(n1))
        err == ExecErr(st, fault)
    IN  IF IsPqError(err) /\ err # "23505" THEN Ret("Internal", EmptyMsg)
        ELSE IF err = ""
             THEN [Ret("OK", n1) EXCEPT !.notes = st.rows, !.seq.notes = st.last]
             ELSE Ret("OK", n1)

CreateNote(pID, nID, n, fault) ==
    LET n1 == [n EXCEPT !.name = FormatNote(pID, nID), !.createTime = now]
        st == insertNote(pID, nID, MarshalTextString(n1))
        err == ExecErr(st, fault)
    IN  IF IsPqError(err)
        THEN IF err = "23505" THEN Ret("AlreadyExists", EmptyMsg)
             ELSE Ret("Internal", EmptyMsg)
        ELSE IF err = ""
             THEN [Ret("OK", n1) EXCEPT !.notes = st.rows, !.seq.notes = st.last]
             ELSE Ret("OK", n1)

\* DeleteNote that takes the occurrences of the note with it
DeleteNoteCascade(pID, nID, fault) ==
    LET st == deleteNote(pID, nID)
        err == ExecErr(st, fault)
    IN  IF err # "" THEN Ret("Internal", EmptyMsg)
        ELSE IF st.count = 0 THEN Ret("NotFound", EmptyMsg)
        ELSE [Ret("OK", EmptyMsg) EXCEPT
                !.notes = st.rows,
                !.occurrences = {o \in occurrences :
                                    ~(o.note_project_id = pID /\ o.note_id = nID)}]

DeleteNote(pID, nID, fault) ==
    LET st == deleteNote(pID, nID)
        err == ExecErr(st, fault)
    IN  IF err # "" THEN Ret("Internal", EmptyMsg)
        ELSE IF st.count = 0 THEN Ret("NotFound", EmptyMsg)
        ELSE [Ret("OK", EmptyMsg) EXCEPT !.notes = st.rows]

\* UpdateNote that applies the field mask: with a mask, only the body is replaced
UpdateNoteMasked(pID, nID, n, mask, fault) ==
    LET hit == searchNote(pID, nID)
        old == UnmarshalText((CHOOSE r \in hit : TRUE).data)
        n1 == IF mask # "" /\ hit # {}
              THEN [old EXCEPT !.body = n.body, !.updateTime = now]
              ELSE [n EXCEPT !.name = FormatNote(pID, nID), !.updateTime = now]
        st == updateNote(MarshalTextString(n1), pID, nID)
        err == ExecErr(st, fault)
    IN  IF err # "" THEN Ret("Internal", EmptyMsg)
        ELSE IF st.count = 0 THEN Ret("NotFound", EmptyMsg)
        ELSE [Ret("OK", n1) EXCEPT !.notes = st.rows]

UpdateNote(pID, nID, n, mask, fault) ==
    LET n1 == [n EXCEPT !.name = FormatNote(pID, nID), !.updateTime = now]
        st == updateNote(MarshalTextString(n1), pID, nID)
        err == ExecErr(st, fault)
    IN  IF err # "" THEN Ret("Internal", EmptyMsg)
        ELSE IF st.count = 0 THEN Ret("NotFound", EmptyMsg)
        ELSE [Ret("OK", n1) EXCEPT !.notes = st.rows]

GetNote(pID, nID, fault) ==
    LET hit == searchNote(pID, nID)
    IN  IF fault # "none" THEN Ret("Internal", EmptyMsg)
        ELSE IF hit = {} THEN Ret("NotFound", EmptyMsg)
        ELSE Ret("OK", [UnmarshalText((CHOOSE r \in hit : TRUE).data)
                           EXCEPT !.name = FormatNote(pID, nID)])

\* CreateOccurrence that refuses an occurrence whose note is not in the store
CreateOccurrenceNeedsNote(pID, id, o, fault) ==
    LET o1 == [o EXCEPT !.createTime = now, !.name = FormatOccurrence(pID, id)]
        nn == ParseNote(o1.noteName)
        st == insertOccurrence(pID, id, nn.pID, nn.nID, MarshalTextString(o1))
        err == ExecErr(st, fault)
    IN  IF ~nn.ok THEN Ret("InvalidArgument", EmptyMsg)
        ELSE IF searchNote(nn.pID, nn.nID) = {} THEN Ret("NotFound", EmptyMsg)
        ELSE IF IsPqError(err)
        THEN IF err = "23505" THEN Ret("AlreadyExists", EmptyMsg)
             ELSE Ret("Internal", EmptyMsg)
        ELSE IF err = ""
             THEN [Ret("OK", o1) EXCEPT !.occurrences = st.rows,
                                        !.seq.occurrences = st.last]
             ELSE Ret("OK", o1)

CreateOccurrence(pID, id, o, fault) ==
    LET o1 == [o EXCEPT !.createTime = now, !.name = FormatOccurrence(pID, id)]
        nn == ParseNote(o1.noteName)
        st == insertOccurrence(pID, id, nn.pID, nn.nID, MarshalTextString(o1))
        err == ExecErr(st, fault)
    IN  IF ~nn.ok THEN Ret("InvalidArgument", EmptyMsg)
        ELSE IF IsPqError(err)
        THEN IF err = "23505" THEN Ret("AlreadyExists", EmptyMsg)
             ELSE Ret("Internal", EmptyMsg)
        ELSE IF err = ""
             THEN [Ret("OK", o1) EXCEPT !.occurrences = st.rows,
                                        !.seq.occurrences = st.last]
             ELSE Ret("OK", o1)

\* DeleteOccurrence that does not look at the number of rows affected
DeleteOccurrenceAnyCount(pID, oID, fault) ==
    LET st == deleteOccurrence(pID, oID)
        err == ExecErr(st, fault)
    IN  IF err # "" THEN Ret("Internal", EmptyMsg)
        ELSE [Ret("OK", EmptyMsg) EXCEPT !.occurrences = st.rows]

DeleteOccurrence(pID, oID, fault) ==
    LET st == deleteOccurrence(pID, oID)
        err == ExecErr(st, fault)
    IN  IF err # "" THEN Ret("Internal", EmptyMsg)
        ELSE IF st.count = 0 THEN Ret("NotFound", EmptyMsg)
        ELSE [Ret("OK", EmptyMsg) EXCEPT !.occurrences = st.rows]

UpdateOccurrence(pID, oID, o, mask, fault) ==
    LET o1 == [o EXCEPT !.updateTime = now]
        st == updateOccurrence(MarshalTextString(o1), pID, oID)
        err == ExecErr(st, fault)
    IN  IF err # "" THEN Ret("Internal", EmptyMsg)
        ELSE IF st.count = 0 THEN Ret("NotFound", EmptyMsg)
        ELSE [Ret("OK", o1) EXCEPT !.occurrences = st.rows]

GetOccurrence(pID, oID, fault) ==
    LET hit == searchOccurrence(pID, oID)
    IN  IF fault # "none" THEN Ret("Internal", EmptyMsg)
        ELSE IF hit = {} THEN Ret("NotFound", EmptyMsg)
        ELSE Ret("OK", [UnmarshalText((CHOOSE r \in hit : TRUE).data)
                           EXCEPT !.name = FormatOccurrence(pID, oID)])

\* fault is the fate of the first database call, fault2 that of the second
GetOccurrenceNote(pID, oID, fault, fault2) ==
    LET o == GetOccurrence(pID, oID, fault)
        nn == ParseNote(o.out.noteName)
        n == GetNote(nn.pID, nn.nID, fault2)
    IN  IF o.code # "OK" THEN o
        ELSE IF ~nn.ok THEN Ret("InvalidArgument", EmptyMsg)
        ELSE IF n.code # "OK" THEN n
        ELSE Ret("OK", [n.out EXCEPT !.name = FormatNote(nn.pID, nn.nID)])

(***************************************************************************)
(* Filters.  A filter string is empty, or parses to a comparison of one    *)
(* payload field with a literal, or does not parse.  ParseFilter gives the *)
(* compiled predicate, the empty string when parsing fails.                *)
(***************************************************************************)
NoFilter == [kind |-> "empty", field |-> "", value |-> ""]
BadFilter == [kind |-> "bad", field |-> "", value |-> ""]
EqFilter(f, v) == [kind |-> "eq", field |-> f, value |-> v]

Kw(w) == [t |-> "kw", field |-> w, value |-> ""]
Cond(c) == [t |-> "cond", field |-> c, value |-> ""]
Pred(f, v) == [t |-> "pred", field |-> f, value |-> v]

ParseFilter(filter) ==
    IF filter.kind = "eq" THEN <<Pred(filter.field, filter.value)>> ELSE <<>>

\* filterQuery = " AND " + fs.ParseFilter(filter), when filter is not empty
FilterQuery(filter) ==
    IF filter.kind # "empty" THEN <<Kw("AND")>> \o ParseFilter(filter) ELSE <<>>

(***************************************************************************)
(* Running a SELECT.  q is the text that follows FROM <table>: nothing, or *)
(* WHERE and conditions joined by AND.  The engine rejects a text that is  *)
(* not of that form, and a predicate on the payload column of a table that *)
(* has none (projects).                                                    *)
(***************************************************************************)
WellFormed(q) ==
    \/ q = <<>>
    \/ /\ Len(q) >= 2
       /\ Len(q) % 2 = 0
       /\ q[1] = Kw("WHERE")
       /\ \A i \in 2..Len(q) :
            IF i % 2 = 0 THEN q[i].t \in {"cond", "pred"} ELSE q[i] = Kw("AND")

HasData(table) == table \in {"notes", "occurrences"}

Accepted(table, q) ==
    /\ WellFormed(q)
    /\ \A i \in 1..Len(q) : q[i].t = "pred" => HasData(table)

\* does row r satisfy condition c, with the statement's parameters
Holds(c, r, pID, nID, after) ==
    CASE c.t = "pred" -> UnmarshalText(r.data)[c.field] = c.value
      [] c.field = "project_id" -> r.project_id = pID
      [] c.field = "note" -> r.note_project_id = pID /\ r.note_id = nID
      [] c.field = "id" -> r.id > after
      [] OTHER -> TRUE

Matching(rows, q, pID, nID, after) ==
    {r \in rows : \A i \in 1..Len(q) : q[i].t = "kw" \/ Holds(q[i], r, pID, nID, after)}

RECURSIVE SortById(_)
SortById(rows) ==
    IF rows = {} THEN <<>>
    ELSE LET r == CHOOSE x \in rows : \A y \in rows : x.id <= y.id
         IN  <<r>> \o SortById(rows \ {r})

\* ... ORDER BY id LIMIT limit
OrderLimit(rows, limit) ==
    LET sorted == SortById(rows)
    IN  SubSeq(sorted, 1, IF limit < Len(sorted) THEN limit ELSE Len(sorted))

MaxOf(ids) == CHOOSE m \in ids : \A i \in ids : i <= m

Rows(table) ==
    CASE table = "projects" -> projects
      [] table = "notes" -> notes
      [] table = "occurrences" -> occurrences

\* the text after FROM of the page query and of the max-id query of each List
listProjects(fq) == <<Kw("WHERE"), Cond("id")>> \o fq
projectsMaxID == <<>>
listNotes(fq) == <<Kw("WHERE"), Cond("project_id"), Kw("AND"), Cond("id")>> \o fq
notesMaxID(fq) == <<Kw("WHERE"), Cond("project_id")>> \o fq
listOccurrences(fq) == <<Kw("WHERE"), Cond("project_id"), Kw("AND"), Cond("id")>> \o fq
occurrenceMaxID(fq) == <<Kw("WHERE"), Cond("project_id")>> \o fq

\* the max-id query of ListProjects: fmt.Sprintf("%s WHERE %s", maxQuery, filterQuery)
ProjectsMaxQuery(fq) ==
    IF fq # <<>> THEN projectsMaxID \o <<Kw("WHERE")>> \o fq ELSE projectsMaxID

\* pg.max: SELECT MAX(id) ...; scanning the NULL of an empty set is an error
max(table, rows, q, pID, nID) ==
    LET m == Matching(rows, q, pID, nID, 0)
    IN  IF ~Accepted(table, q) \/ m = {} THEN [ok |-> FALSE, v |-> 0]
        ELSE [ok |-> TRUE, v |-> MaxOf({r.id : r \in m})]

Item(table, r) ==
    IF table = "projects" THEN [EmptyMsg EXCEPT !.name = r.name]
    ELSE UnmarshalText(r.data)

(***************************************************************************)
(* The List methods.  key is the store's pagination key, fault tells which *)
(* of the two database calls fails, if any.  The three methods share their *)
(* body but for the queries they build.                                    *)
(***************************************************************************)
ListFaults == {"none", "page", "max"}

\* ListRows that issues a next-token whenever the page holds a row
ListRowsAlwaysMore(table, page, maxQ, key, pID, fault) ==
    LET enc == encryptInt64(page[Len(page)].id, key, now)
    IN  IF Len(page) = 0 THEN Ret("OK", EmptyMsg)
        ELSE [Ret("OK", EmptyMsg) EXCEPT
                !.items = [i \in 1..Len(page) |-> Item(table, page[i])],
                !.ids = [i \in 1..Len(page) |-> page[i].id],
                !.next = enc.token]

\* ListRows whose next-token holds the greatest id instead of the last id
ListRowsTokenOfMax(table, page, maxQ, key, pID, fault) ==
    LET lastID == page[Len(page)].id
        maxID == max(table, Rows(table), maxQ, pID, "")
        enc == encryptInt64(maxID.v, key, now)
        out == [Ret("OK", EmptyMsg) EXCEPT
                    !.items = [i \in 1..Len(page) |-> Item(table, page[i])],
                    !.ids = [i \in 1..Len(page) |-> page[i].id]]
    IN  IF Len(page) = 0 THEN Ret("OK", EmptyMsg)
        ELSE IF fault = "max" \/ ~maxID.ok THEN Ret("Internal", EmptyMsg)
        ELSE IF lastID >= maxID.v THEN out
        ELSE IF ~enc.ok THEN Ret("Internal", EmptyMsg)
        ELSE [out EXCEPT !.next = enc.token]

\* what a List method does with the rows of its page query
ListRows(table, page, maxQ, key, pID, fault) ==
    LET lastID == page[Len(page)].id
        maxID == max(table, Rows(table), maxQ, pID, "")
        enc == encryptInt64(lastID, key, now)
        out == [Ret("OK", EmptyMsg) EXCEPT
                    !.items = [i \in 1..Len(page) |-> Item(table, page[i])],
                    !.ids = [i \in 1..Len(page) |-> page[i].id]]
    IN  IF Len(page) = 0 THEN Ret("OK", EmptyMsg)
        ELSE IF fault = "max" \/ ~maxID.ok THEN Ret("Internal", EmptyMsg)
        ELSE IF lastID >= maxID.v THEN out
        ELSE IF ~enc.ok THEN Ret("Internal", EmptyMsg)
        ELSE [out EXCEPT !.next = enc.token]

ListBody(table, pageQ, maxQ, key, pID, pageToken, pageSize, fault) ==
    LET id == decryptInt64(pageToken, key, 0, now)
    IN  IF fault = "page" \/ ~Accepted(table, pageQ) \/ pageSize < 0
        THEN Ret("Internal", EmptyMsg)
        ELSE ListRows(table, OrderLimit(Matching(Rows(table), pageQ, pID, "", id), pageSize),
                      maxQ, key, pID, fault)

ListProjects(key, filter, pageSize, pageToken, fault) ==
    ListBody("projects", listProjects(FilterQuery(filter)),
             ProjectsMaxQuery(FilterQuery(filter)), key, "", pageToken, pageSize, fault)

ListNotes(key, pID, filter, pageToken, pageSize, fault) ==
    ListBody("notes", listNotes(FilterQuery(filter)), notesMaxID(FilterQuery(filter)),
             key, pID, pageToken, pageSize, fault)

ListOccurrences(key, pID, filter, pageToken, pageSize, fault) ==
    ListBody("occurrences", listOccurrences(FilterQuery(filter)),
             occurrenceMaxID(FilterQuery(filter)), key, pID, pageToken, pageSize, fault)

\* the text after FROM of the two queries of ListNoteOccurrences
listNoteOccurrences == <<Kw("WHERE"), Cond("note"), Kw("AND"), Cond("id")>>
NoteOccurrencesMaxID == <<Kw("WHERE"), Cond("note")>>

\* fault "note" fails the query of GetNote, "page" and "max" the two queries of
\* the listing; the argument filter is not read
ListNoteOccurrences(key, pID, nID, filter, pageToken, pageSize, fault) ==
    LET n == GetNote(pID, nID, IF fault = "note" THEN "conn" ELSE "none")
        id == decryptInt64(pageToken, key, 0, now)
        page == OrderLimit(Matching(occurrences, listNoteOccurrences, pID, nID, id),
                           pageSize)
        lastID == page[Len(page)].id
        maxID == max("occurrences", occurrences, NoteOccurrencesMaxID, pID, nID)
        enc == encryptInt64(lastID, key, now)
        out == [Ret("OK", EmptyMsg) EXCEPT
                    !.items = [i \in 1..Len(page) |-> Item("occurrences", page[i])],
                    !.ids = [i \in 1..Len(page) |-> page[i].id]]
    IN  IF n.code # "OK" THEN Ret(n.code, EmptyMsg)
        ELSE IF fault = "page" \/ pageSize < 0 THEN Ret("Internal", EmptyMsg)
        ELSE IF Len(page) = 0 THEN Ret("OK", EmptyMsg)
        ELSE IF fault = "max" \/ ~maxID.ok THEN Ret("Internal", EmptyMsg)
        ELSE IF lastID >= maxID.v THEN out
        ELSE IF ~enc.ok THEN Ret("Internal", EmptyMsg)
        ELSE [out EXCEPT !.next = enc.token]

CursorIds == {0 - 120, 0, 7, 10, 4075}
CursorKeys == {EmptyKey, InvalidValue, ShortKey, KeyA, KeyB, KeyAHex}
CursorDefaults == {0, 99}

IdleCur ==
    [op |-> "idle", v |-> 0, ekey |-> EmptyKey, ok |-> FALSE, token |-> EmptyToken,
     dkey |-> EmptyKey, def |-> 0, at |-> 0, out |-> 0]

\* a fresh FilterSQL value
IdleFs ==
    [selects |-> 0, filter |-> [kind |-> "none"], sql |-> <<>>, status |-> "idle",
     reused |-> FALSE]

\* no batch-create call has been made
IdleBatch ==
    [op |-> "idle", pID |-> "", input |-> <<>>, todo |-> <<>>, log |-> <<>>,
     created |-> <<>>, errs |-> <<>>]

\* no List call is in flight, none has been
IdleScan ==
    [op |-> "idle", at |-> "idle", rep |-> "", pID |-> "", filter |-> NoFilter,
     pageSize |-> 0, page |-> <<>>, more |-> FALSE]

\* no listing is under way
IdleWalk ==
    [op |-> "idle", at |-> "idle", pID |-> "", filter |-> NoFilter, pageSize |-> 0,
     token |-> EmptyToken, page |-> <<>>, seen |-> <<>>, before |-> {}, stale |-> FALSE]

(***************************************************************************)
(* Construction.  gen is what key.Generate gives (the material of a fresh  *)
(* key, or "" when the random source fails), db whether the ping and the   *)
(* CREATE TABLE IF NOT EXISTS statements succeed.                          *)
(***************************************************************************)
Down == [up |-> FALSE, paginationKey |-> EmptyKey]

GeneratedKey(gen) == [enc |-> "base64url", len |-> KeyLen, mat |-> gen]

\* NewStoreWithCustomConnector that does not validate the key it is given
NewStoreUnchecked(paginationKey, gen, db) ==
    LET key == IF paginationKey = EmptyKey THEN GeneratedKey(gen) ELSE paginationKey
    IN  IF paginationKey = EmptyKey /\ gen = ""
        THEN [err |-> "failed to generate pagination key", store |-> Down]
        ELSE IF db = "ping"
        THEN [err |-> "failed to ping the database server", store |-> Down]
        ELSE IF db = "ddl"
        THEN [err |-> "failed to create tables", store |-> Down]
        ELSE [err |-> "", store |-> [up |-> TRUE, paginationKey |-> key]]

NewStoreWithCustomConnector(paginationKey, gen, db) ==
    LET key == IF paginationKey = EmptyKey THEN GeneratedKey(gen) ELSE paginationKey
    IN  IF paginationKey = EmptyKey /\ gen = ""
        THEN [err |-> "failed to generate pagination key", store |-> Down]
        ELSE IF paginationKey # EmptyKey /\ ~DecodeKey(paginationKey).ok
        THEN [err |-> "invalid pagination key; must be 256-bit URL-safe base64",
              store |-> Down]
        ELSE IF db = "ping"
        THEN [err |-> "failed to ping the database server", store |-> Down]
        ELSE IF db = "ddl"
        THEN [err |-> "failed to create tables", store |-> Down]
        ELSE [err |-> "", store |-> [up |-> TRUE, paginationKey |-> key]]

(***************************************************************************)
(* Actions: one call of one method of one replica.  res keeps the name of  *)
(* the call and the outline of its answer: the status code and, for a List *)
(* call, the number of rows it returned and whether it returned a          *)
(* next-token.                                                             *)
(***************************************************************************)
IdleRes == [op |-> "idle", code |-> "", n |-> 0, more |-> FALSE]

\* the call a returned r
Returns(a, r) ==
    /\ projects' = r.projects
    /\ notes' = r.notes
    /\ occurrences' = r.occurrences
    /\ seq' = r.seq
    /\ res' = [a EXCEPT !.code = r.code, !.n = Len(r.ids), !.more = (r.next # EmptyToken)]
    /\ UNCHANGED <<now, pg, boot, cur, batch, scan, fs, walk>>

Called(op) == [IdleRes EXCEPT !.op = op]

NoteInputs == {[EmptyMsg EXCEPT !.body = b] : b \in Bodies}
NoteNames == {FormatNote("p1", "n1"), FormatNote("p2", "n1"), <<"notes", "n1">>}
OccurrenceInputs == {[EmptyMsg EXCEPT !.body = "A", !.noteName = nn] : nn \in NoteNames}
Masks == {"", "body"}
\* the ids the record store is exercised with; listing uses all of Nids and Oids
CrudNids == {"n1"}
CrudOids == {"o1"}
\* the fate of the database call of a method that treats every error alike
Failures == {"none", "conn"}

NewStoreCall(r, key, gen, db) ==
    LET n == NewStoreWithCustomConnector(key, gen, db)
    IN  /\ boot' = [rep |-> r, key |-> key, gen |-> gen, db |-> db, err |-> n.err]
        /\ pg' = [pg EXCEPT ![r] = n.store]
        /\ UNCHANGED <<tables, now, res, cur, batch, scan, fs, walk>>

CreateProjectCall(pID, fault) ==
    /\ Inserted < MaxRows \/ projectExists(FormatProject(pID))
    /\ Returns(Called("CreateProject"),
               CreateProject(pID, [EmptyMsg EXCEPT !.name = FormatProject(pID)], fault))

DeleteProjectCall(pID, fault) ==
    Returns(Called("DeleteProject"), DeleteProject(pID, fault))

GetProjectCall(pID, fault) ==
    Returns(Called("GetProject"), GetProject(pID, fault))

CreateNoteCall(pID, nID, n, fault) ==
    /\ Inserted < MaxRows \/ searchNote(pID, nID) # {}
    /\ Returns(Called("CreateNote"), CreateNote(pID, nID, n, fault))

DeleteNoteCall(pID, nID, fault) ==
    Returns(Called("DeleteNote"), DeleteNote(pID, nID, fault))

UpdateNoteCall(pID, nID, n, mask, fault) ==
    Returns(Called("UpdateNote"), UpdateNote(pID, nID, n, mask, fault))

GetNoteCall(pID, nID, fault) ==
    Returns(Called("GetNote"), GetNote(pID, nID, fault))

\* id is the random UUID that uuid.NewRandom hands out
CreateOccurrenceCall(pID, id, o, fault) ==
    /\ Inserted < MaxRows \/ searchOccurrence(pID, id) # {}
    /\ Returns(Called("CreateOccurrence"), CreateOccurrence(pID, id, o, fault))

DeleteOccurrenceCall(pID, oID, fault) ==
    Returns(Called("DeleteOccurrence"), DeleteOccurrence(pID, oID, fault))

UpdateOccurrenceCall(pID, oID, o, mask, fault) ==
    Returns(Called("UpdateOccurrence"), UpdateOccurrence(pID, oID, o, mask, fault))

GetOccurrenceCall(pID, oID, fault) ==
    Returns(Called("GetOccurrence"), GetOccurrence(pID, oID, fault))

GetOccurrenceNoteCall(pID, oID, fault) ==
    Returns(Called("GetOccurrenceNote"), GetOccurrenceNote(pID, oID, fault, fault))

(***************************************************************************)
(* The record store: every Create, Get, Update and Delete, in any order,   *)
(* against one database, with the clock running.                           *)
(***************************************************************************)
BothUp(k1, k2) ==
    [r \in Replicas |->
        NewStoreWithCustomConnector(IF r = "r1" THEN k1 ELSE k2, "g", "ok").store]

EmptyTables ==
    /\ projects = {}
    /\ notes = {}
    /\ occurrences = {}
    /\ seq = [projects |-> 0, notes |-> 0, occurrences |-> 0]

IdleBoot == [rep |-> "", key |-> EmptyKey, gen |-> "", db |-> "", err |-> ""]

Init ==
    /\ EmptyTables
    /\ now = 1
    /\ pg = BothUp(KeyA, KeyA)
    /\ boot = IdleBoot
    /\ res = IdleRes
    /\ cur = IdleCur
    /\ batch = IdleBatch
    /\ scan = IdleScan
    /\ fs = IdleFs
    /\ walk = IdleWalk

Next ==
    \/ \E pID \in Pids, f \in Faults : CreateProjectCall(pID, f)
    \/ \E pID \in Pids, f \in Failures : DeleteProjectCall(pID, f)
    \/ \E pID \in Pids, f \in Failures : GetProjectCall(pID, f)
    \/ \E pID \in Pids, nID \in CrudNids, n \in NoteInputs, f \in Faults :
            CreateNoteCall(pID, nID, n, f)
    \/ \E pID \in Pids, nID \in CrudNids, f \in Failures : DeleteNoteCall(pID, nID, f)
    \/ \E pID \in Pids, nID \in CrudNids, n \in NoteInputs, m \in Masks, f \in Failures :
            UpdateNoteCall(pID, nID, n, m, f)
    \/ \E pID \in Pids, nID \in CrudNids, f \in Failures : GetNoteCall(pID, nID, f)
    \/ \E pID \in Pids, id \in CrudOids, o \in OccurrenceInputs, f \in Faults :
            CreateOccurrenceCall(pID, id, o, f)
    \/ \E pID \in Pids, oID \in CrudOids, f \in Failures : DeleteOccurrenceCall(pID, oID, f)
    \/ \E pID \in Pids, oID \in CrudOids, o \in OccurrenceInputs, m \in Masks,
          f \in Failures : UpdateOccurrenceCall(pID, oID, o, m, f)
    \/ \E pID \in Pids, oID \in CrudOids, f \in Failures : GetOccurrenceCall(pID, oID, f)
    \/ \E pID \in Pids, oID \in CrudOids, f \in Failures : GetOccurrenceNoteCall(pID, oID, f)
    \/ Tick(MaxTime)

Spec == Init /\ [][Next]_vars

\* the rows of the three tables after a call that returned r are those before it
RowsKept(r) ==
    /\ r.projects = projects
    /\ r.notes = notes
    /\ r.occurrences = occurrences

\* C7: creating a Project or a Note whose business key exists returns AlreadyExists
\* and changes no row, the existing payload included; and no two rows of a table
\* ever share a business key.
CreateExistingFails ==
    /\ \A pID \in Pids :
        projectExists(FormatProject(pID)) =>
            LET r == CreateProject(pID, [EmptyMsg EXCEPT !.name = FormatProject(pID)], "none")
            IN  r.code = "AlreadyExists" /\ RowsKept(r)
    /\ \A pID \in Pids, nID \in Nids, n \in NoteInputs :
        searchNote(pID, nID) # {} =>
            LET r == CreateNote(pID, nID, n, "none")
            IN  r.code = "AlreadyExists" /\ RowsKept(r)
    /\ \A x, y \in projects : x.name = y.name => x = y
    /\ \A x, y \in notes : x.project_id = y.project_id /\ x.note_id = y.note_id => x = y
    /\ \A x, y \in occurrences :
        x.project_id = y.project_id /\ x.occurrence_id = y.occurrence_id => x = y

CreateExistingFailsWitness ==
    /\ res.op = "CreateNote"
    /\ res.code = "AlreadyExists"
    /\ \E x \in notes :
        /\ UnmarshalText(x.data).body = "B"
        /\ CreateNote(x.project_id, x.note_id, [EmptyMsg EXCEPT !.body = "A"], "none").code
                = "AlreadyExists"

\* C8: Get, Update and Delete of a Project, Note or Occurrence whose business key
\* is absent return NotFound and change no row of any table.
AbsentKeyNotFound ==
    /\ \A pID \in Pids :
        ~projectExists(FormatProject(pID)) =>
            /\ GetProject(pID, "none").code = "NotFound" /\ RowsKept(GetProject(pID, "none"))
            /\ DeleteProject(pID, "none").code = "NotFound"
            /\ RowsKept(DeleteProject(pID, "none"))
    /\ \A pID \in Pids, nID \in Nids :
        searchNote(pID, nID) = {} =>
            /\ GetNote(pID, nID, "none").code = "NotFound"
            /\ RowsKept(GetNote(pID, nID, "none"))
            /\ DeleteNote(pID, nID, "none").code = "NotFound"
            /\ RowsKept(DeleteNote(pID, nID, "none"))
            /\ \A n \in NoteInputs, m \in Masks :
                /\ UpdateNote(pID, nID, n, m, "none").code = "NotFound"
                /\ RowsKept(UpdateNote(pID, nID, n, m, "none"))
    /\ \A pID \in Pids, oID \in Oids :
        searchOccurrence(pID, oID) = {} =>
            /\ GetOccurrence(pID, oID, "none").code = "NotFound"
            /\ RowsKept(GetOccurrence(pID, oID, "none"))
            /\ DeleteOccurrence(pID, oID, "none").code = "NotFound"
            /\ RowsKept(DeleteOccurrence(pID, oID, "none"))
            /\ \A o \in OccurrenceInputs, m \in Masks :
                /\ UpdateOccurrence(pID, oID, o, m, "none").code = "NotFound"
                /\ RowsKept(UpdateOccurrence(pID, oID, o, m, "none"))

AbsentKeyNotFoundWitness ==
    /\ res.op = "DeleteOccurrence"
    /\ res.code = "NotFound"
    /\ occurrences # {}
    /\ notes # {}

\* the occurrences whose payload names a note that is not in the store
Dangling ==
    {o \in occurrences :
        LET nn == ParseNote(UnmarshalText(o.data).noteName)
        IN  nn.ok /\ searchNote(nn.pID, nn.nID) = {}}

\* C9: a Delete of a present key removes that one row and no other row of any
\* table (no notes or occurrences go with a project, no occurrences with a note);
\* for an occurrence whose note is gone GetOccurrenceNote returns NotFound while
\* GetOccurrence succeeds.
DeleteRemovesOneRow ==
    /\ \A pID \in Pids :
        projectExists(FormatProject(pID)) =>
            LET r == DeleteProject(pID, "none")
            IN  /\ r.code = "OK"
                /\ r.projects = {x \in projects : x.name # FormatProject(pID)}
                /\ Cardinality(r.projects) = Cardinality(projects) - 1
                /\ r.notes = notes /\ r.occurrences = occurrences
    /\ \A pID \in Pids, nID \in Nids :
        searchNote(pID, nID) # {} =>
            LET r == DeleteNote(pID, nID, "none")
            IN  /\ r.code = "OK"
                /\ r.notes = {x \in notes : ~(x.project_id = pID /\ x.note_id = nID)}
                /\ Cardinality(r.notes) = Cardinality(notes) - 1
                /\ r.projects = projects /\ r.occurrences = occurrences
    /\ \A pID \in Pids, oID \in Oids :
        searchOccurrence(pID, oID) # {} =>
            LET r == DeleteOccurrence(pID, oID, "none")
            IN  /\ r.code = "OK"
                /\ r.occurrences =
                     {x \in occurrences : ~(x.project_id = pID /\ x.occurrence_id = oID)}
                /\ Cardinality(r.occurrences) = Cardinality(occurrences) - 1
                /\ r.projects = projects /\ r.notes = notes
    /\ \A o \in Dangling :
        /\ GetOccurrenceNote(o.project_id, o.occurrence_id, "none", "none").code = "NotFound"
        /\ GetOccurrence(o.project_id, o.occurrence_id, "none").code = "OK"

DeleteRemovesOneRowWitness ==
    /\ res.op = "DeleteNote"
    /\ res.code = "OK"
    /\ seq.notes = 1
    /\ notes = {}
    /\ \E o \in Dangling :
        GetOccurrenceNote(o.project_id, o.occurrence_id, "none", "none").code = "NotFound"

\* the payload stored under a key of notes / of occurrences
NoteData(rows, pID, nID) ==
    UnmarshalText((CHOOSE x \in rows : x.project_id = pID /\ x.note_id = nID).data)
OccurrenceData(rows, pID, oID) ==
    UnmarshalText((CHOOSE x \in rows : x.project_id = pID /\ x.occurrence_id = oID).data)

\* C10: UpdateNote and UpdateOccurrence on a present key store the supplied record
\* with the update time stamped (and, for a note, its name), whatever the field
\* mask: nothing of the previous payload is kept, the creation time neither.
UpdateReplaces ==
    /\ \A pID \in Pids, nID \in Nids, n \in NoteInputs, m \in Masks :
        searchNote(pID, nID) # {} =>
            LET r == UpdateNote(pID, nID, n, m, "none")
            IN  /\ r.code = "OK"
                /\ NoteData(r.notes, pID, nID)
                     = [n EXCEPT !.name = FormatNote(pID, nID), !.updateTime = now]
                /\ NoteData(r.notes, pID, nID).createTime = NoTime
                /\ r.notes = UpdateNote(pID, nID, n, "", "none").notes
    /\ \A pID \in Pids, oID \in Oids, o \in OccurrenceInputs, m \in Masks :
        searchOccurrence(pID, oID) # {} =>
            LET r == UpdateOccurrence(pID, oID, o, m, "none")
            IN  /\ r.code = "OK"
                /\ OccurrenceData(r.occurrences, pID, oID) = [o EXCEPT !.updateTime = now]
                /\ r.occurrences = UpdateOccurrence(pID, oID, o, "", "none").occurrences

UpdateReplacesWitness ==
    /\ res.op = "UpdateNote"
    /\ res.code = "OK"
    /\ \E x \in notes :
        /\ UnmarshalText(x.data).createTime = NoTime
        /\ UnmarshalText(x.data).updateTime = now
        /\ UnmarshalText(x.data).body = "B"

\* C11: a Get that follows a CreateNote or a CreateOccurrence that reported
\* success returns the record that Create returned (the supplied payload with
\* the name and the creation time the server set).
CreateThenGet ==
    [][/\ \A pID \in Pids, nID \in CrudNids, n \in NoteInputs, f \in Faults :
            LET c == CreateNote(pID, nID, n, f)
            IN  (CreateNoteCall(pID, nID, n, f) /\ c.code = "OK") =>
                    /\ c.out = [n EXCEPT !.name = FormatNote(pID, nID), !.createTime = now]
                    /\ GetNote(pID, nID, "none")'.code = "OK"
                    /\ GetNote(pID, nID, "none")'.out = c.out
       /\ \A pID \in Pids, id \in CrudOids, o \in OccurrenceInputs, f \in Faults :
            LET c == CreateOccurrence(pID, id, o, f)
            IN  (CreateOccurrenceCall(pID, id, o, f) /\ c.code = "OK") =>
                    /\ c.out = [o EXCEPT !.name = FormatOccurrence(pID, id),
                                         !.createTime = now]
                    /\ GetOccurrence(pID, id, "none")'.code = "OK"
                    /\ GetOccurrence(pID, id, "none")'.out = c.out]_vars

\* C13: CreateOccurrence with a note name that does not parse returns
\* InvalidArgument and writes nothing, whatever the database would do; with a note
\* name that parses and a fresh key it inserts the occurrence with the parsed
\* note reference, whether the note is in the store or not.
NoteNameParsed ==
    \A pID \in Pids, id \in Oids, o \in OccurrenceInputs :
        LET nn == ParseNote(o.noteName)
            r == CreateOccurrence(pID, id, o, "none")
        IN  /\ ~nn.ok =>
                \A f \in Faults :
                    /\ CreateOccurrence(pID, id, o, f).code = "InvalidArgument"
                    /\ RowsKept(CreateOccurrence(pID, id, o, f))
                    /\ CreateOccurrence(pID, id, o, f).seq = seq
            /\ (nn.ok /\ searchOccurrence(pID, id) = {}) =>
                /\ r.code = "OK"
                /\ r.occurrences = occurrences \cup
                      {[id |-> seq.occurrences + 1, project_id |-> pID,
                        occurrence_id |-> id, note_project_id |-> nn.pID,
                        note_id |-> nn.nID, data |-> MarshalTextString(r.out)]}
                /\ r.occurrences # occurrences
                /\ r.notes = notes /\ r.projects = projects

NoteNameParsedWitness ==
    /\ res.op = "CreateOccurrence"
    /\ res.code = "OK"
    /\ seq.notes = 0
    /\ Dangling # {}
    /\ \E o \in OccurrenceInputs : \E pID \in Pids :
        /\ ~ParseNote(o.noteName).ok
        /\ CreateOccurrence(pID, "o2", o, "none").code = "InvalidArgument"

\* C15: a Create whose database call fails, with an error of the server or
\* with any other error, does not report success; and a Create that reports
\* success has inserted its row.
CreateFailureReported ==
    \A f \in Faults :
        /\ \A pID \in Pids :
            LET r == CreateProject(pID, [EmptyMsg EXCEPT !.name = FormatProject(pID)], f)
            IN  /\ f # "none" => r.code # "OK"
                /\ r.code = "OK" => r.projects # projects
        /\ \A pID \in Pids, nID \in Nids, n \in NoteInputs :
            LET r == CreateNote(pID, nID, n, f)
            IN  /\ f # "none" => r.code # "OK"
                /\ r.code = "OK" => r.notes # notes
        /\ \A pID \in Pids, id \in Oids, o \in OccurrenceInputs :
            LET r == CreateOccurrence(pID, id, o, f)
            IN  /\ f # "none" => r.code # "OK"
                /\ r.code = "OK" => r.occurrences # occurrences

\* C26: the note columns of every occurrence row are the project and the note
\* id of the note name in the row's payload, so that, for a note in the store,
\* ListNoteOccurrences gives an occurrence exactly when GetOccurrenceNote finds
\* that note for it; also after an UpdateOccurrence that changed the note name.
NoteColumnsFollowPayload ==
    /\ \A r \in occurrences :
            LET nn == ParseNote(UnmarshalText(r.data).noteName)
            IN  nn.ok => r.note_project_id = nn.pID /\ r.note_id = nn.nID
    /\ \A pID \in Pids, nID \in Nids :
            LET l == ListNoteOccurrences(pg["r1"].paginationKey, pID, nID, NoFilter, EmptyToken,
                                         MaxRows, "none")
            IN  GetNote(pID, nID, "none").code = "OK" =>
                    \A r \in occurrences :
                        LET g == GetOccurrenceNote(r.project_id, r.occurrence_id, "none",
                                                   "none")
                        IN  (\E i \in 1..Len(l.ids) : l.ids[i] = r.id)
                                <=> (g.code = "OK" /\ g.out.name = FormatNote(pID, nID))

(***************************************************************************)
(* Construction on its own: each replica constructs its store, again and   *)
(* again, with keys of every kind, with and without a working random       *)
(* source and database.                                                    *)
(***************************************************************************)
InitNew ==
    /\ EmptyTables
    /\ now = 1
    /\ pg = [r \in Replicas |-> Down]
    /\ boot = IdleBoot
    /\ res = IdleRes
    /\ cur = IdleCur
    /\ batch = IdleBatch
    /\ scan = IdleScan
    /\ fs = IdleFs
    /\ walk = IdleWalk

NextNew ==
    \E r \in Replicas, key \in CursorKeys, gen \in {"", "g1", "g2"},
       db \in {"ok", "ping", "ddl"} : NewStoreCall(r, key, gen, db)

SpecNew == InitNew /\ [][NextNew]_vars

InvalidKeyError == "invalid pagination key; must be 256-bit URL-safe base64"

TokenKind(tok, key, at) ==
    CASE tok = EmptyToken -> "empty"
      [] tok.kind # "fernet" -> "noise"
      [] ~DecodeKey(key).ok \/ tok.key # DecodeKey(key).key -> "otherkey"
      [] at > tok.ts + Hour -> "expired"
      [] ~ParseInt(tok.msg).ok -> "forged"
      [] OTHER -> "fresh"

\* page tokens a caller can present at time at: none, noise, a token whose
\* plaintext is no number, one signed with another key, and tokens for the
\* watermark 1 issued in the first hour and just now
Tokens(at) ==
    {EmptyToken, GarbageToken, EncryptAndSign(<<"x">>, "a", at),
     EncryptAndSign(FormatInt(1), "b", at)}
        \cup {EncryptAndSign(FormatInt(1), "a", ts) : ts \in {1, at}}

Filters == {NoFilter, BadFilter, EqFilter("body", "A")}
PageSizes == 1..MaxPageSize
ListOccurrenceInputs ==
    {[EmptyMsg EXCEPT !.body = b, !.noteName = FormatNote("p1", "n1")] : b \in Bodies}

ListProjectsCall(rep, filter, pageSize, pageToken, fault) ==
    /\ pg[rep].up
    /\ Returns(Called("ListProjects"),
               ListProjects(pg[rep].paginationKey, filter, pageSize, pageToken, fault))

ListNotesCall(rep, pID, filter, pageToken, pageSize, fault) ==
    /\ pg[rep].up
    /\ Returns(Called("ListNotes"),
               ListNotes(pg[rep].paginationKey, pID, filter, pageToken, pageSize, fault))

ListOccurrencesCall(rep, pID, filter, pageToken, pageSize, fault) ==
    /\ pg[rep].up
    /\ Returns(Called("ListOccurrences"),
               ListOccurrences(pg[rep].paginationKey, pID, filter, pageToken, pageSize,
                               fault))

ListNoteOccurrencesCall(rep, pID, nID, filter, pageToken, pageSize, fault) ==
    /\ pg[rep].up
    /\ Returns(Called("ListNoteOccurrences"),
               ListNoteOccurrences(pg[rep].paginationKey, pID, nID, filter, pageToken,
                                   pageSize, fault))

InitList ==
    /\ EmptyTables
    /\ now = 1
    /\ pg = BothUp(KeyA, KeyA)
    /\ boot = IdleBoot
    /\ res = IdleRes
    /\ cur = IdleCur
    /\ batch = IdleBatch
    /\ scan = IdleScan
    /\ fs = IdleFs
    /\ walk = IdleWalk

\* the tables are filled and emptied during the first LoadBy hours
Loading == now <= LoadBy

NextList ==
    \/ \E pID \in Pids : Loading /\ CreateProjectCall(pID, "none")
    \/ \E pID \in Pids : Loading /\ DeleteProjectCall(pID, "none")
    \/ \E pID \in Pids, nID \in Nids, n \in NoteInputs :
            Loading /\ CreateNoteCall(pID, nID, n, "none")
    \/ \E pID \in Pids, nID \in Nids : Loading /\ DeleteNoteCall(pID, nID, "none")
    \/ \E pID \in Pids, id \in Oids, o \in ListOccurrenceInputs :
            Loading /\ CreateOccurrenceCall(pID, id, o, "none")
    \/ \E pID \in Pids, oID \in Oids : Loading /\ DeleteOccurrenceCall(pID, oID, "none")
    \/ \E flt \in Filters, k \in PageSizes, tok \in Tokens(now) :
            ListProjectsCall("r1", flt, k, tok, "none")
    \/ \E pID \in Pids, flt \in Filters, k \in PageSizes, tok \in Tokens(now) :
            ListNotesCall("r1", pID, flt, tok, k, "none")
    \/ \E pID \in Pids, flt \in Filters, k \in PageSizes, tok \in Tokens(now) :
            ListOccurrencesCall("r1", pID, flt, tok, k, "none")
    \/ \E pID \in Pids, nID \in Nids, flt \in Filters, k \in PageSizes,
          tok \in {EmptyToken, EncryptAndSign(FormatInt(1), "a", now)} :
            ListNoteOccurrencesCall("r1", pID, nID, flt, tok, k, "none")
    \/ \E pID \in Pids, nID \in Nids, k \in PageSizes, f \in {"note", "page", "max"} :
            ListNoteOccurrencesCall("r1", pID, nID, NoFilter, EmptyToken, k, f)
    \/ \E k \in PageSizes, tok \in Tokens(now) : ListProjectsCall("r2", NoFilter, k, tok, "none")
    \/ \E pID \in Pids, k \in PageSizes, tok \in Tokens(now) :
            ListNotesCall("r2", pID, NoFilter, tok, k, "none")
    \/ \E pID \in Pids, k \in PageSizes, tok \in Tokens(now) :
            ListOccurrencesCall("r2", pID, NoFilter, tok, k, "none")
    \/ \E k \in PageSizes, f \in {"page", "max"} :
            ListProjectsCall("r1", NoFilter, k, EmptyToken, f)
    \/ \E pID \in Pids, k \in PageSizes, f \in {"page", "max"} :
            ListNotesCall("r1", pID, NoFilter, EmptyToken, k, f)
    \/ \E pID \in Pids, k \in PageSizes, f \in {"page", "max"} :
            ListOccurrencesCall("r1", pID, NoFilter, EmptyToken, k, f)
    \/ Tick(MaxTime + Hour)

SpecList == InitList /\ [][NextList]_vars

(***************************************************************************)
(* What a List call would answer in the present state.                     *)
(***************************************************************************)
ListOps == {"ListProjects", "ListNotes", "ListOccurrences"}

\* the scopes a List call can name: ListProjects has none
Scopes(op) == IF op = "ListProjects" THEN {""} ELSE Pids

List(op, key, pID, filter, pageToken, pageSize, fault) ==
    CASE op = "ListProjects" -> ListProjects(key, filter, pageSize, pageToken, fault)
      [] op = "ListNotes" -> ListNotes(key, pID, filter, pageToken, pageSize, fault)
      [] op = "ListOccurrences" ->
            ListOccurrences(key, pID, filter, pageToken, pageSize, fault)

TableOf(op) ==
    CASE op = "ListProjects" -> "projects"
      [] op = "ListNotes" -> "notes"
      [] op = "ListOccurrences" -> "occurrences"

\* the ids of the rows of op's table that lie in the scope pID and whose record
\* satisfies filter
MatchingIds(op, pID, filter) ==
    {r.id : r \in {x \in Rows(TableOf(op)) :
                      /\ op = "ListProjects" \/ x.project_id = pID
                      /\ filter.kind = "eq" =>
                            Item(TableOf(op), x)[filter.field] = filter.value}}

Last(s) == s[Len(s)]

Key1 == pg["r1"].paginationKey
Key2 == pg["r2"].paginationKey

\* C2: a List call returns a next-token exactly when it returned at least one row
\* and its last row's id is below the greatest id among the rows matching the same
\* scope and predicate; a call that fails returns neither rows nor token.
NextTokenIff ==
    \A op \in ListOps : \A pID \in Scopes(op), flt \in Filters, k \in 0..MaxPageSize,
       tok \in Tokens(now), f \in ListFaults :
        LET r == List(op, Key1, pID, flt, tok, k, f)
        IN  (f = "none" \/ tok = EmptyToken) =>
            /\ (r.next # EmptyToken) <=>
                    (/\ Len(r.ids) >= 1
                     /\ Last(r.ids) < MaxOf(MatchingIds(op, pID, flt)))
            /\ r.code # "OK" => r.ids = <<>> /\ r.next = EmptyToken

NextTokenIffWitness ==
    /\ res.op = "ListNotes"
    /\ res.n = 1
    /\ res.more
    /\ \E pID \in Pids :
        LET r == ListNotes(Key1, pID, EqFilter("body", "A"), EmptyToken, 1, "none")
        IN  r.next # EmptyToken /\ r.ids = <<1>> /\ MatchingIds("ListNotes", pID, EqFilter("body", "A")) = {1, 2}

\* the ids of a set in ascending order
RECURSIVE Ascending(_)
Ascending(ids) ==
    IF ids = {} THEN <<>>
    ELSE LET m == CHOOSE x \in ids : \A y \in ids : x <= y
         IN  <<m>> \o Ascending(ids \ {m})

\* the answers a caller gets who presents pageToken and then feeds each returned
\* next-token into the next call, until a call returns no token (at most fuel calls)
RECURSIVE Chain(_, _, _, _, _, _)
Chain(op, pID, filter, pageSize, pageToken, fuel) ==
    LET r == List(op, Key1, pID, filter, pageToken, pageSize, "none")
    IN  IF fuel = 0 THEN <<>>
        ELSE IF r.next = EmptyToken THEN <<r>>
        ELSE <<r>> \o Chain(op, pID, filter, pageSize, r.next, fuel - 1)

RECURSIVE ChainIds(_)
ChainIds(c) == IF c = <<>> THEN <<>> ELSE Head(c).ids \o ChainIds(Tail(c))

ChainFilters == {NoFilter, EqFilter("body", "A"), EqFilter("name", FormatProject("p1"))}

\* C1: with no writes in between, the chain of List calls that starts from the
\* empty token returns every matching row once, in ascending id order, at most
\* pageSize rows a page, and ends with the call that returns no token.
ChainReturnsAll ==
    \A op \in ListOps : \A pID \in Scopes(op), flt \in ChainFilters, k \in 1..MaxPageSize :
        LET c == Chain(op, pID, flt, k, EmptyToken, MaxRows + 1)
        IN  /\ ChainIds(c) = Ascending(MatchingIds(op, pID, flt))
            /\ \A i \in 1..Len(c) : Len(c[i].ids) <= k
            /\ Last(c).next = EmptyToken

\* C14: a List call whose filter does not parse returns no error, and the items
\* and the next-token that the same call returns with the empty filter.
BadFilterUnfiltered ==
    \A op \in ListOps : \A pID \in Scopes(op), k \in 0..MaxPageSize, tok \in Tokens(now) :
        LET a == List(op, Key1, pID, BadFilter, tok, k, "none")
            b == List(op, Key1, pID, NoFilter, tok, k, "none")
        IN  /\ a.code = "OK"
            /\ a.items = b.items
            /\ a.next = b.next

\* C23: ListProjects with a filter that compiles and matches a project (here
\* name = "projects/<pID>") returns no error, returns matching projects, and
\* gives a next-token exactly when the last id returned is below the greatest
\* id among the matching projects.
ProjectsFilterApplied ==
    \A pID \in Pids, k \in PageSizes :
        LET flt == EqFilter("name", FormatProject(pID))
            ids == {r.id : r \in {x \in projects : x.name = FormatProject(pID)}}
            r == ListProjects(Key1, flt, k, EmptyToken, "none")
        IN  ids # {} =>
                /\ r.code = "OK"
                /\ r.ids # <<>>
                /\ \A i \in 1..Len(r.ids) : r.ids[i] \in ids
                /\ r.next # EmptyToken <=> Last(r.ids) < MaxOf(ids)

\* C27: ListNoteOccurrences with a filter returns NotFound and no items when
\* the note is not in the store, and otherwise only occurrences that are
\* attached to the note and match the filter.
NoteOccurrencesFiltered ==
    \A pID \in Pids, nID \in Nids, k \in PageSizes :
        LET flt == EqFilter("body", "A")
            r == ListNoteOccurrences(Key1, pID, nID, flt, EmptyToken, k, "none")
            attached == {x \in occurrences : x.note_project_id = pID /\ x.note_id = nID}
        IN  IF GetNote(pID, nID, "none").code = "NotFound"
            THEN r.code = "NotFound" /\ r.items = <<>> /\ r.next = EmptyToken
            ELSE /\ r.code = "OK"
                 /\ \A i \in 1..Len(r.ids) :
                        /\ r.ids[i] \in {x.id : x \in attached}
                        /\ r.items[i][flt.field] = flt.value

\* C4: a page token that is empty, noise, signed with another key, older than an
\* hour or not a decimal number decodes to the default, and a List call given it
\* answers what the same call answers to the empty token.
DecodeNeverFails ==
    \A tok \in Tokens(now) :
        TokenKind(tok, Key1, now) # "fresh" =>
            /\ \A d \in CursorDefaults : decryptInt64(tok, Key1, d, now) = d
            /\ \A op \in ListOps : \A pID \in Scopes(op), flt \in Filters,
                  k \in 0..MaxPageSize :
                    List(op, Key1, pID, flt, tok, k, "none")
                        = List(op, Key1, pID, flt, EmptyToken, k, "none")

DecodeNeverFailsWitness ==
    /\ res.op = "ListNotes"
    /\ res.n = 1
    /\ now > 1 + Hour
    /\ \E pID \in Pids :
        /\ ListNotes(Key1, pID, NoFilter, EncryptAndSign(FormatInt(1), "a", 1), 1,
                     "none").ids = <<1>>
        /\ ListNotes(Key1, pID, NoFilter, EncryptAndSign(FormatInt(1), "a", now), 1,
                     "none").ids = <<2>>

ForgedTokens(at) ==
    {EncryptAndSign(m, "a", at) : m \in {<<>>, <<"x">>, <<"1", "x">>, <<"-">>}}

EncryptCall(v, key) ==
    LET r == encryptInt64(v, key, now)
    IN  /\ cur' = [IdleCur EXCEPT !.op = "encryptInt64", !.v = v, !.ekey = key,
                                  !.ok = r.ok, !.token = r.token]
        /\ UNCHANGED <<tables, now, pg, boot, res, batch, scan, fs, walk>>

DecryptCall(tok, key, def) ==
    /\ cur' = [(IF tok = cur.token THEN cur ELSE IdleCur) EXCEPT
                   !.op = "decryptInt64", !.token = tok, !.dkey = key,
                   !.def = def, !.at = now,
                   !.out = decryptInt64(tok, key, def, now)]
    /\ UNCHANGED <<tables, now, pg, boot, res, batch, scan, fs, walk>>

InitCursor ==
    /\ EmptyTables
    /\ now = 1
    /\ pg = BothUp(KeyA, KeyA)
    /\ boot = IdleBoot
    /\ res = IdleRes
    /\ cur = IdleCur
    /\ batch = IdleBatch
    /\ scan = IdleScan
    /\ fs = IdleFs
    /\ walk = IdleWalk

NextCursor ==
    \/ \E v \in CursorIds, key \in CursorKeys : EncryptCall(v, key)
    \/ \E tok \in {cur.token, EmptyToken, GarbageToken} \cup ForgedTokens(now),
          key \in CursorKeys, def \in CursorDefaults :
            DecryptCall(tok, key, def)
    \/ Tick(MaxTime + Hour)

SpecCursor == InitCursor /\ [][NextCursor]_vars

\* C3: a token made by encryptInt64(v, key) decodes, with the same valid key and
\* within one hour of its issue, to exactly v, whatever the default is.
RoundTrip ==
    (/\ cur.op = "decryptInt64"
     /\ DecodeKey(cur.ekey).ok
     /\ cur.ok
     /\ cur.token.kind = "fernet"
     /\ cur.token.msg = FormatInt(cur.v)
     /\ cur.dkey = cur.ekey
     /\ cur.at <= cur.token.ts + Hour)
    => cur.out = cur.v

RoundTripWitness ==
    /\ cur.op = "decryptInt64"
    /\ cur.ok
    /\ cur.token.msg = FormatInt(cur.v)
    /\ cur.dkey = cur.ekey
    /\ cur.at = cur.token.ts + Hour
    /\ cur.v = 0 - 120
    /\ cur.def = 99
    /\ cur.out = cur.v

(***************************************************************************)
(* Batch-create.  BatchCreateNotes and BatchCreateOccurrences clone their  *)
(* input and call CreateNote / CreateOccurrence once per item; the loop is *)
(* no transaction, so each item is a step of its own.  An item is its key  *)
(* (the note id; occurrences have none) and its record.  A map of notes is *)
(* ranged over in any order, a list of occurrences from its head.  log     *)
(* keeps what each Create of the loop returned.                            *)
(***************************************************************************)
\* items of one batch-create call
MaxBatch == 2

BatchItem(key, rec) == [key |-> key, rec |-> rec]

\* the maps of notes a caller can pass, each listed by ascending note id
NoteBatches ==
    {<<>>}
      \cup {<<BatchItem(nID, n)>> : nID \in Nids, n \in NoteInputs}
      \cup {<<BatchItem("n1", n), BatchItem("n2", m)>> : n \in NoteInputs, m \in NoteInputs}

OccurrenceBatches ==
    UNION {[1..k -> {BatchItem("", o) : o \in OccurrenceInputs}] : k \in 0..MaxBatch}

\* s without its i-th element
Remove(s, i) == SubSeq(s, 1, i - 1) \o SubSeq(s, i + 1, Len(s))

\* what the call returns once its loop has run out
BatchReturns(b) ==
    IF b.todo = <<>>
    THEN [op |-> b.op, code |-> "OK", n |-> Len(b.created), more |-> FALSE]
    ELSE res

\* the loop of a batch-create call took item it and its Create returned r
BatchStep(it, rest, r) ==
    /\ projects' = r.projects
    /\ notes' = r.notes
    /\ occurrences' = r.occurrences
    /\ seq' = r.seq
    /\ batch' = [batch EXCEPT
                    !.todo = rest,
                    !.log = Append(@, [key |-> it.key, code |-> r.code, out |-> r.out]),
                    !.created = IF r.code = "OK" THEN Append(@, r.out) ELSE @]
    /\ res' = BatchReturns(batch')
    /\ UNCHANGED <<now, pg, boot, cur, scan, fs, walk>>

BatchStart(op, pID, items) ==
    /\ batch.todo = <<>>
    /\ Len(items) <= MaxBatch
    /\ batch' = [op |-> op, pID |-> pID, input |-> items, todo |-> items,
                 log |-> <<>>, created |-> <<>>, errs |-> <<>>]
    /\ res' = BatchReturns(batch')
    /\ UNCHANGED <<tables, now, pg, boot, cur, scan, fs, walk>>

BatchCreateNotesCall(pID, ns) ==
    /\ Inserted + Cardinality({i \in 1..Len(ns) : searchNote(pID, ns[i].key) = {}})
            <= MaxRows
    /\ BatchStart("BatchCreateNotes", pID, ns)

BatchCreateNotesItem(i, fault) ==
    /\ batch.op = "BatchCreateNotes"
    /\ i \in 1..Len(batch.todo)
    /\ BatchStep(batch.todo[i], Remove(batch.todo, i),
                 CreateNote(batch.pID, batch.todo[i].key, batch.todo[i].rec, fault))

BatchCreateOccurrencesCall(pID, occs) ==
    /\ Inserted + Len(occs) <= MaxRows
    /\ BatchStart("BatchCreateOccurrences", pID, occs)

\* id is the random UUID that CreateOccurrence draws for the item
BatchCreateOccurrencesItem(id, fault) ==
    /\ batch.op = "BatchCreateOccurrences"
    /\ batch.todo # <<>>
    /\ BatchStep(Head(batch.todo), Tail(batch.todo),
                 CreateOccurrence(batch.pID, id, Head(batch.todo).rec, fault))

InitBatch ==
    /\ EmptyTables
    /\ now = 1
    /\ pg = BothUp(KeyA, KeyA)
    /\ boot = IdleBoot
    /\ res = IdleRes
    /\ cur = IdleCur
    /\ batch = IdleBatch
    /\ scan = IdleScan
    /\ fs = IdleFs
    /\ walk = IdleWalk

NextBatch ==
    \/ \E pID \in Pids, ns \in NoteBatches : BatchCreateNotesCall(pID, ns)
    \/ \E i \in 1..MaxBatch, f \in Faults : BatchCreateNotesItem(i, f)
    \/ \E pID \in Pids, occs \in OccurrenceBatches : BatchCreateOccurrencesCall(pID, occs)
    \/ \E id \in Oids, f \in Faults : BatchCreateOccurrencesItem(id, f)
    \/ Tick(MaxTime)

SpecBatch == InitBatch /\ [][NextBatch]_vars

\* the batch-create call has returned
BatchReturned == batch.op # "idle" /\ batch.todo = <<>>

\* the records of the loop's Creates that reported success, in the loop's order
RECURSIVE Succeeded(_)
Succeeded(log) ==
    IF log = <<>> THEN <<>>
    ELSE (IF Head(log).code = "OK" THEN <<Head(log).out>> ELSE <<>>)
            \o Succeeded(Tail(log))

\* a row of notes or occurrences holds record m
Stored(m) ==
    \E r \in notes \cup occurrences : r.data = MarshalTextString(m)

\* C12: when a batch-create call returns, its loop has called Create for every
\* item of the input, the returned list holds exactly the records whose Create
\* succeeded, every one of them is stored, and the error list is empty.
BatchCreatesAll ==
    BatchReturned =>
        /\ Len(batch.log) = Len(batch.input)
        /\ batch.created = Succeeded(batch.log)
        /\ batch.errs = <<>>
        /\ res.n = Len(batch.created)
        /\ \A i \in 1..Len(batch.created) : Stored(batch.created[i])

(***************************************************************************)
(* A List call next to concurrent writers.  The page query and the max-id  *)
(* query of a List method are two statements outside any transaction, so   *)
(* the call is two steps: ScanPage runs the page query and keeps its rows, *)
(* ScanMax runs the rest of the method against the tables as they are by   *)
(* then.  Create and Delete calls of other clients run in between.         *)
(***************************************************************************)
PageQuery(op, filter) ==
    CASE op = "ListProjects" -> listProjects(FilterQuery(filter))
      [] op = "ListNotes" -> listNotes(FilterQuery(filter))
      [] op = "ListOccurrences" -> listOccurrences(FilterQuery(filter))

MaxQuery(op, filter) ==
    CASE op = "ListProjects" -> ProjectsMaxQuery(FilterQuery(filter))
      [] op = "ListNotes" -> notesMaxID(FilterQuery(filter))
      [] op = "ListOccurrences" -> occurrenceMaxID(FilterQuery(filter))

ScanPage(op, rep, pID, filter, pageToken, pageSize, fault) ==
    LET id == decryptInt64(pageToken, pg[rep].paginationKey, 0, now)
        rows == Matching(Rows(TableOf(op)), PageQuery(op, filter), pID, "", id)
    IN  /\ pg[rep].up
        /\ scan.at # "max"
        /\ IF fault = "page" \/ ~Accepted(TableOf(op), PageQuery(op, filter)) \/ pageSize < 0
           THEN /\ res' = [Called(op) EXCEPT !.code = "Internal"]
                /\ scan' = IdleScan
           ELSE /\ scan' = [op |-> op, at |-> "max", rep |-> rep, pID |-> pID,
                            filter |-> filter, pageSize |-> pageSize,
                            page |-> OrderLimit(rows, pageSize), more |-> FALSE]
                /\ UNCHANGED res
        /\ UNCHANGED <<tables, now, pg, boot, cur, batch, fs, walk>>

\* the rest of a List method that skips the max-id query and ends the listing
ScanAnswerNoMax(fault) ==
    [Ret("OK", EmptyMsg) EXCEPT
        !.items = [i \in 1..Len(scan.page) |-> Item(TableOf(scan.op), scan.page[i])],
        !.ids = [i \in 1..Len(scan.page) |-> scan.page[i].id]]

\* what the List call in flight returns if the rest of it runs now
ScanAnswer(fault) ==
    ListRows(TableOf(scan.op), scan.page, MaxQuery(scan.op, scan.filter),
             pg[scan.rep].paginationKey, scan.pID, fault)

ScanMax(fault) ==
    /\ scan.at = "max"
    /\ res' = [Called(scan.op) EXCEPT !.code = ScanAnswer(fault).code,
                                      !.n = Len(ScanAnswer(fault).ids),
                                      !.more = (ScanAnswer(fault).next # EmptyToken)]
    /\ scan' = [scan EXCEPT !.at = "returned",
                            !.more = (ScanAnswer(fault).next # EmptyToken)]
    /\ UNCHANGED <<tables, now, pg, boot, cur, batch, fs, walk>>

ScanFilters == {NoFilter, BadFilter, EqFilter("body", "A")}

InitScan ==
    /\ EmptyTables
    /\ now = 1
    /\ pg = BothUp(KeyA, KeyA)
    /\ boot = IdleBoot
    /\ res = IdleRes
    /\ cur = IdleCur
    /\ batch = IdleBatch
    /\ scan = IdleScan
    /\ fs = IdleFs
    /\ walk = IdleWalk

NextScan ==
    \/ \E pID \in Pids : CreateProjectCall(pID, "none")
    \/ \E pID \in Pids : DeleteProjectCall(pID, "none")
    \/ \E pID \in Pids, nID \in Nids, n \in NoteInputs : CreateNoteCall(pID, nID, n, "none")
    \/ \E pID \in Pids, nID \in Nids : DeleteNoteCall(pID, nID, "none")
    \/ \E pID \in Pids, id \in Oids, o \in ListOccurrenceInputs :
            CreateOccurrenceCall(pID, id, o, "none")
    \/ \E pID \in Pids, oID \in Oids : DeleteOccurrenceCall(pID, oID, "none")
    \/ \E op \in ListOps : \E pID \in Scopes(op), flt \in ScanFilters, k \in PageSizes,
          f \in {"none", "page"} : ScanPage(op, "r1", pID, flt, EmptyToken, k, f)
    \/ \E f \in {"none", "max"} : ScanMax(f)

SpecScan == InitScan /\ [][NextScan]_vars

\* the rows of the page of the List call in flight are still in the table
PageKept == \A i \in 1..Len(scan.page) : scan.page[i] \in Rows(TableOf(scan.op))

\* C16: whatever rows were inserted since the page query of a List call in
\* flight, the call does not fail, it returns exactly the rows of its page query
\* and writes nothing, and it issues a next-token exactly when the greatest id of
\* the matching rows, as the tables are at the max-id query, is above the id of
\* the last row of the page.
InsertsBetweenQueries ==
    (scan.at = "max" /\ scan.page # <<>> /\ PageKept) =>
        LET r == ScanAnswer("none")
        IN  /\ r.code = "OK"
            /\ r.ids = [i \in 1..Len(scan.page) |-> scan.page[i].id]
            /\ r.items = [i \in 1..Len(scan.page) |->
                            Item(TableOf(scan.op), scan.page[i])]
            /\ RowsKept(r)
            /\ (r.next # EmptyToken) <=>
                    MaxOf(MatchingIds(scan.op, scan.pID, scan.filter)) > Last(scan.page).id

\* the page query saw no row beyond its page, a row was inserted since, and the
\* max-id query sees it
InsertsBetweenQueriesWitness ==
    /\ scan.at = "max"
    /\ scan.op = "ListOccurrences"
    /\ scan.filter = EqFilter("body", "A")
    /\ Len(scan.page) = 1
    /\ scan.pageSize = 2
    /\ PageKept
    /\ ScanAnswer("none").next # EmptyToken
    /\ ScanAnswer("none").ids = <<1>>

\* C28: when every matching row was deleted since the page query of a List
\* call in flight returned its rows, the call returns no error: it returns the
\* rows of its page and the empty next-token.
DeletesBetweenQueries ==
    (scan.at = "max" /\ scan.page # <<>>
        /\ MatchingIds(scan.op, scan.pID, scan.filter) = {}) =>
        LET r == ScanAnswer("none")
        IN  /\ r.code = "OK"
            /\ r.ids = [i \in 1..Len(scan.page) |-> scan.page[i].id]
            /\ r.next = EmptyToken

\* a List call has reported its page as the last one, and a row that matches
\* and lies beyond the page is in the table: it was inserted after the max-id query
FinalPageThenLaterRow ==
    /\ scan.at = "returned"
    /\ scan.page # <<>>
    /\ Len(scan.page) < scan.pageSize
    /\ ~scan.more
    /\ res.code = "OK"
    /\ \E id \in MatchingIds(scan.op, scan.pID, scan.filter) : id > Last(scan.page).id

(***************************************************************************)
(* The filter compiler (FilterSQL).  A string is a sequence of characters. *)
(* A filter is the AST that parser.Parse makes of it, or is unparseable.   *)
(* An AST node is a call (function, args), a select (operand, field), an   *)
(* ident (name), a constant (ck: the kind of constant, val) or a node of   *)
(* another kind.  Functions are named after the constants of the package   *)
(* operators.  A compilation gives the SQL text, the selection-depth       *)
(* counter afterwards and whether it panicked.                             *)
(***************************************************************************)
Call(function, args) == [kind |-> "call", function |-> function, args |-> args]
Select(operand, field) == [kind |-> "select", operand |-> operand, field |-> field]
Ident(name) == [kind |-> "ident", name |-> name]
Const(ck, val) == [kind |-> "const", ck |-> ck, val |-> val]
Unparseable == [kind |-> "unparseable"]

Sql(sql, selects) == [sql |-> sql, selects |-> selects, panic |-> FALSE]
Panic(selects) == [sql |-> <<>>, selects |-> selects, panic |-> TRUE]

\* strings.Split(s, sep) for a separator of one character
RECURSIVE Split(_, _)
Split(s, sep) ==
    IF \A i \in 1..Len(s) : s[i] # sep THEN <<s>>
    ELSE LET i == CHOOSE k \in 1..Len(s) : s[k] = sep /\ \A j \in 1..(k - 1) : s[j] # sep
         IN  <<SubSeq(s, 1, i - 1)>> \o Split(SubSeq(s, i + 1, Len(s)), sep)

\* strings.Join(elems, sep)
RECURSIVE Join(_, _)
Join(elems, sep) ==
    IF elems = <<>> THEN <<>>
    ELSE IF Len(elems) = 1 THEN elems[1]
    ELSE elems[1] \o sep \o Join(Tail(elems), sep)

\* fmt.Sprintf("%f", v) of the double v.whole + v.micros / 10^6
FormatFloat(v) ==
    LET frac == Digits(v.micros)
    IN  FormatInt(v.whole) \o <<".">> \o [i \in 1..(6 - Len(frac)) |-> "0"] \o frac

formatLikeString(argName) ==
    LET parts == Split(argName, "'")
    IN  IF Len(parts) < 2 THEN [panic |-> TRUE, sql |-> <<>>]
        ELSE [panic |-> FALSE, sql |-> <<"'", "%">> \o parts[2] \o <<"%", "'">>]

getConstantValue(constExpr) ==
    CASE constExpr.ck = "int64" -> FormatInt(constExpr.val)
      [] constExpr.ck = "uint64" -> FormatInt(constExpr.val)
      [] constExpr.ck = "double" -> FormatFloat(constExpr.val)
      [] constExpr.ck = "string" -> <<"'">> \o constExpr.val \o <<"'">>
      [] OTHER -> <<"N", "O", " ", "C", "O", "N", "S", "T">>

\* the sqlOp that the switch of sqlFromCall chooses
SqlOp(funcName) ==
    CASE funcName = "Equals" -> <<"=">>
      [] funcName = "Greater" -> <<">">>
      [] funcName = "GreaterEquals" -> <<">", "=">>
      [] funcName = "Less" -> <<"<">>
      [] funcName = "LessEquals" -> <<"<", "=">>
      [] funcName = "NotEquals" -> <<"!", "=">>
      [] funcName = "LogicalAnd" -> <<"A", "N", "D">>
      [] funcName = "LogicalOr" -> <<"O", "R">>
      [] funcName = "Index" -> <<"[">>
      [] funcName = "Has" -> <<"l", "i", "k", "e">>
      [] OTHER -> <<>>

\* JsonPath with the text-producing accessor for every segment
RECURSIVE JsonPathAllText(_, _)
JsonPathAllText(spl, i) ==
    IF i > Len(spl) THEN <<>>
    ELSE <<"-", ">", ">", "'">> \o spl[i] \o <<"'">> \o JsonPathAllText(spl, i + 1)

\* retVal of makeSQL for the segments spl of a top-level field access
RECURSIVE JsonPath(_, _)
JsonPath(spl, i) ==
    IF i > Len(spl) THEN <<>>
    ELSE IF i # Len(spl)
    THEN <<"-", ">", "'">> \o spl[i] \o <<"'">> \o JsonPath(spl, i + 1)
    ELSE <<"-", ">", ">", "'">> \o spl[i] \o <<"'">>

RECURSIVE makeSQL(_, _)
RECURSIVE sqlFromCall(_, _, _)
RECURSIVE sqlFromSelect(_, _)
RECURSIVE ArgNames(_, _)

\* the loop of sqlFromCall over args
ArgNames(args, selects) ==
    IF args = <<>> THEN [names |-> <<>>, selects |-> selects, panic |-> FALSE]
    ELSE LET h == makeSQL(Head(args), selects)
             t == ArgNames(Tail(args), h.selects)
         IN  IF h.panic THEN [names |-> <<>>, selects |-> h.selects, panic |-> TRUE]
             ELSE [names |-> <<h.sql>> \o t.names, selects |-> t.selects,
                   panic |-> t.panic]

\* sqlFromCall that leaves AND and OR without parentheses
sqlFromCallBare(funcName, args, selects) ==
    LET a == ArgNames(args, selects)
        sqlOp == SqlOp(funcName)
        like == formatLikeString(a.names[2])
    IN  IF a.panic THEN Panic(a.selects)
        ELSE IF sqlOp = <<"[">>
        THEN IF Len(a.names) < 2 THEN Panic(a.selects)
             ELSE Sql(a.names[1] \o <<"[">> \o a.names[2] \o <<"]">>, a.selects)
        ELSE IF sqlOp = <<"l", "i", "k", "e">>
        THEN IF Len(a.names) < 2 \/ like.panic THEN Panic(a.selects)
             ELSE Sql(<<"(">> \o a.names[1] \o <<" ">> \o sqlOp \o <<" ">> \o like.sql
                        \o <<")">>, a.selects)
        ELSE IF sqlOp # <<>>
        THEN IF Len(a.names) < 2 THEN Panic(a.selects)
             ELSE IF funcName \in {"LogicalAnd", "LogicalOr"}
             THEN Sql(a.names[1] \o <<" ">> \o sqlOp \o <<" ">> \o a.names[2], a.selects)
             ELSE Sql(<<"(">> \o a.names[1] \o <<" ">> \o sqlOp \o <<" ">> \o a.names[2]
                        \o <<")">>, a.selects)
        ELSE Sql(<<funcName>> \o <<"(">> \o Join(a.names, <<",", " ">>) \o <<")">>,
                 a.selects)

\* makeSQL without fs.selects-- after a select
makeSQLNoDecrement(node, selects) ==
    CASE node.kind = "call" -> sqlFromCall(node.function, node.args, selects)
      [] node.kind = "select" ->
            LET retStr == sqlFromSelect(node, selects + 1)
            IN  IF retStr.panic THEN retStr
                ELSE IF retStr.selects = 0
                THEN Sql(<<"d", "a", "t", "a">> \o JsonPath(Split(retStr.sql, "."), 1), 0)
                ELSE Sql(retStr.sql, retStr.selects)
      [] node.kind = "ident" ->
            IF selects > 0 THEN Sql(node.name, selects)
            ELSE Sql(<<"d", "a", "t", "a", "-", ">", ">", "'">> \o node.name \o <<"'">>, selects)
      [] node.kind = "const" -> Sql(getConstantValue(node), selects)
      [] OTHER -> Sql(<<"N", "O", " ", "S", "Q", "L">>, selects)

\* an index beyond argNames panics
sqlFromCall(funcName, args, selects) ==
    LET a == ArgNames(args, selects)
        sqlOp == SqlOp(funcName)
        like == formatLikeString(a.names[2])
    IN  IF a.panic THEN Panic(a.selects)
        ELSE IF sqlOp = <<"[">>
        THEN IF Len(a.names) < 2 THEN Panic(a.selects)
             ELSE Sql(a.names[1] \o <<"[">> \o a.names[2] \o <<"]">>, a.selects)
        ELSE IF sqlOp = <<"l", "i", "k", "e">>
        THEN IF Len(a.names) < 2 \/ like.panic THEN Panic(a.selects)
             ELSE Sql(<<"(">> \o a.names[1] \o <<" ">> \o sqlOp \o <<" ">> \o like.sql
                        \o <<")">>, a.selects)
        ELSE IF sqlOp # <<>>
        THEN IF Len(a.names) < 2 THEN Panic(a.selects)
             ELSE Sql(<<"(">> \o a.names[1] \o <<" ">> \o sqlOp \o <<" ">> \o a.names[2]
                        \o <<")">>, a.selects)
        ELSE Sql(<<funcName>> \o <<"(">> \o Join(a.names, <<",", " ">>) \o <<")">>,
                 a.selects)

sqlFromSelect(selectNode, selects) ==
    LET operand == makeSQL(selectNode.operand, selects)
    IN  IF operand.panic THEN operand
        ELSE Sql(operand.sql \o <<".">> \o selectNode.field, operand.selects)

makeSQL(node, selects) ==
    CASE node.kind = "call" -> sqlFromCall(node.function, node.args, selects)
      [] node.kind = "select" ->
            LET retStr == sqlFromSelect(node, selects + 1)
            IN  IF retStr.panic THEN retStr
                ELSE IF retStr.selects - 1 = 0
                THEN Sql(<<"d", "a", "t", "a">> \o JsonPath(Split(retStr.sql, "."), 1), 0)
                ELSE Sql(retStr.sql, retStr.selects - 1)
      [] node.kind = "ident" ->
            IF selects > 0 THEN Sql(node.name, selects)
            ELSE Sql(<<"d", "a", "t", "a", "-", ">", ">", "'">> \o node.name \o <<"'">>, selects)
      [] node.kind = "const" -> Sql(getConstantValue(node), selects)
      [] OTHER -> Sql(<<"N", "O", " ", "S", "Q", "L">>, selects)

\* FilterSQL.ParseFilter on a FilterSQL value whose counter is selects
FilterSQLParseFilter(filter, selects) ==
    IF filter = Unparseable THEN Sql(<<>>, selects) ELSE makeSQL(filter, selects)

(***************************************************************************)
(* The filter compiler on its own: one FilterSQL value compiles filters    *)
(* drawn from bounded sets, one after the other; a List method starts from *)
(* a fresh value.                                                          *)
(***************************************************************************)
\* the segments of the longest field path
MaxPath == 3

FieldNames == <<<<"a">>, <<"b">>, <<"c">>, <<"d">>>>

\* the field path of the first n names: a, a.b, a.b.c
RECURSIVE Path(_)
Path(n) == IF n = 1 THEN Ident(FieldNames[1]) ELSE Select(Path(n - 1), FieldNames[n])

Paths == {Path(n) : n \in 1..MaxPath}

\* string values: plain, empty, with a single quote, with a dot
StringValues == {<<"v">>, <<>>, <<"i", "t", "'", "s">>, <<"a", ".", "b">>}

StringLiterals == {Const("string", v) : v \in StringValues}

NumberLiterals ==
    {Const("int64", 10), Const("int64", 0 - 5), Const("uint64", 100),
     Const("double", [whole |-> 1, micros |-> 500000])}

Literals == StringLiterals \cup NumberLiterals \cup {Const("bool", TRUE)}

CompareOps == {"Equals", "NotEquals", "Greater", "GreaterEquals", "Less", "LessEquals"}
LogicalOps == {"LogicalAnd", "LogicalOr"}
BinaryOps == CompareOps \cup LogicalOps

Comparisons == {Call(op, <<p, l>>) : op \in CompareOps, p \in Paths, l \in Literals}

\* the comparisons that logical operators are built over
Operands ==
    {Call("Equals", <<Path(2), Const("string", <<"v">>)>>),
     Call("Greater", <<Path(1), Const("int64", 10)>>),
     Call("Less", <<Path(2), Path(1)>>)}

Logicals == {Call(op, <<x, y>>) : op \in LogicalOps, x \in Operands, y \in Operands}

Nested ==
    {Call(op, <<Call(op2, <<x, x>>), x>>) : op \in LogicalOps, op2 \in LogicalOps,
                                            x \in Operands}
      \cup {Call(op, <<x, Call(op2, <<x, x>>)>>) : op \in LogicalOps, op2 \in LogicalOps,
                                                   x \in Operands}

HasCalls == {Call("Has", <<p, l>>) : p \in Paths, l \in Literals \cup {Path(1)}}

IndexCalls == {Call("Index", <<p, l>>) : p \in Paths, l \in {Const("string", <<"v">>),
                                                               Const("int64", 10)}}

\* calls of functions that are no operator, a bare path, a bare literal, and a
\* node that is neither call, select, ident nor constant
OtherFilters ==
    {Call("f", <<>>), Call("f", <<Path(1)>>), Call("g", <<Path(2), Const("int64", 10)>>),
     Path(1), Path(2), Const("string", <<"v">>), [kind |-> "list"]}

FilterInputs ==
    {Unparseable} \cup Comparisons \cup Logicals \cup Nested \cup HasCalls
        \cup IndexCalls \cup OtherFilters \cup Paths

ParseFilterCall(filter) ==
    LET r == FilterSQLParseFilter(filter, fs.selects)
    IN  /\ fs' = [selects |-> r.selects, filter |-> filter, sql |-> r.sql,
                  status |-> IF r.panic THEN "panic"
                             ELSE IF filter = Unparseable THEN "logged" ELSE "ok",
                  reused |-> fs.status # "idle"]
        /\ UNCHANGED <<tables, now, pg, boot, res, cur, batch, scan, walk>>

\* var fs FilterSQL
NewFilterSQL ==
    /\ fs' = IdleFs
    /\ UNCHANGED <<tables, now, pg, boot, res, cur, batch, scan, walk>>

InitFilter ==
    /\ EmptyTables
    /\ now = 1
    /\ pg = BothUp(KeyA, KeyA)
    /\ boot = IdleBoot
    /\ res = IdleRes
    /\ cur = IdleCur
    /\ batch = IdleBatch
    /\ scan = IdleScan
    /\ fs = IdleFs
    /\ walk = IdleWalk

NextFilter ==
    \/ \E filter \in FilterInputs : ParseFilterCall(filter)
    \/ NewFilterSQL

SpecFilter == InitFilter /\ [][NextFilter]_vars

\* the filters built from the binary comparison and logical operators over
\* field paths and literals
BinaryFilters == Comparisons \cup Logicals \cup Nested

\* the parentheses of a text, in their order
ParenShape(sql) == SelectSeq(sql, LAMBDA ch : ch \in {"(", ")"})

\* the nesting of the binary operations of an AST, as parentheses
RECURSIVE AstShape(_)
AstShape(node) ==
    IF node.kind = "call"
    THEN <<"(">> \o AstShape(node.args[1]) \o AstShape(node.args[2]) \o <<")">>
    ELSE <<>>

\* (data->'a'->>'b' = 'v')
PathEqualsV ==
    <<"(", "d", "a", "t", "a", "-", ">", "'", "a", "'", "-", ">", ">", "'", "b", "'",
      " ", "=", " ", "'", "v", "'", ")">>

\* C17: the text compiled from a filter of binary operators over field paths
\* and literals is ( lhs op rhs ) of the texts of its two operands, so that its
\* parentheses nest as the binary operations of the AST do; a.b = "v" gives
\* (data->'a'->>'b' = 'v'), and the OR and the AND of two such comparisons give
\* ((...) OR (...)) and ((...) AND (...)).
FullyParenthesized ==
    fs.filter \in BinaryFilters =>
        LET lhs == makeSQL(fs.filter.args[1], 0).sql
            rhs == makeSQL(fs.filter.args[2], 0).sql
            eq == Call("Equals", <<Path(2), Const("string", <<"v">>)>>)
        IN  /\ fs.status = "ok"
            /\ fs.sql = <<"(">> \o lhs \o <<" ">> \o SqlOp(fs.filter.function) \o <<" ">>
                            \o rhs \o <<")">>
            /\ ParenShape(fs.sql) = AstShape(fs.filter)
            /\ fs.filter = eq => fs.sql = PathEqualsV
            /\ fs.filter = Call("LogicalOr", <<eq, eq>>) =>
                    fs.sql = <<"(">> \o PathEqualsV \o <<" ", "O", "R", " ">> \o PathEqualsV
                                \o <<")">>
            /\ fs.filter = Call("LogicalAnd", <<eq, eq>>) =>
                    fs.sql = <<"(">> \o PathEqualsV \o <<" ", "A", "N", "D", " ">> \o PathEqualsV
                                \o <<")">>

FullyParenthesizedWitness ==
    /\ fs.status = "ok"
    /\ fs.filter = Call("LogicalOr",
                        <<Call("Equals", <<Path(2), Const("string", <<"v">>)>>),
                          Call("Greater", <<Path(1), Const("int64", 10)>>)>>)
    /\ fs.sql = <<"(">> \o PathEqualsV \o <<" ", "O", "R", " ">>
                    \o <<"(", "d", "a", "t", "a", "-", ">", ">", "'", "a", "'", " ", ">",
                      " ", "1", "0", ")">> \o <<")">>

\* what a SQL text holds outside single-quoted literals, each literal leaving
\* its quotes: a character is within a literal when an odd number of quotes
\* precedes it
Skeleton(sql) ==
    LET Inside(i) == Cardinality({j \in 1..(i - 1) : sql[j] = "'"}) % 2 = 1
        at == [i \in 1..Len(sql) |-> <<i, sql[i]>>]
        kept == SelectSeq(at, LAMBDA p : p[2] = "'" \/ ~Inside(p[1]))
    IN  [i \in 1..Len(kept) |-> kept[i][2]]

\* the AST with the value of every string constant replaced by v
RECURSIVE Blank(_)
Blank(node) ==
    CASE node.kind = "const" ->
            IF node.ck = "string" THEN Const("string", <<"v">>) ELSE node
      [] node.kind = "call" ->
            Call(node.function, [i \in 1..Len(node.args) |-> Blank(node.args[i])])
      [] node.kind = "select" -> Select(Blank(node.operand), node.field)
      [] OTHER -> node

\* C18: whatever the string values of a filter are, what its compiled text
\* holds outside single-quoted literals (operators, parentheses, accessors, the
\* quotes themselves) is what the same filter holds with every value replaced by
\* the plain value v.
LiteralsKeepStructure ==
    fs.status = "ok" =>
        Skeleton(fs.sql) = Skeleton(makeSQL(Blank(fs.filter), 0).sql)

\* C19: no call of ParseFilter panics: for a filter that does not parse it
\* returns the empty text, and for every AST it returns a text.
NeverPanics ==
    /\ fs.status # "panic"
    /\ fs.status = "logged" => fs.sql = <<>>
    /\ \A filter \in FilterInputs : ~FilterSQLParseFilter(filter, 0).panic

\* ->'s' and ->>'s'
JsonAccessor(s) == <<"-", ">", "'">> \o s \o <<"'">>
TextAccessor(s) == <<"-", ">", ">", "'">> \o s \o <<"'">>

\* data->'s1'...->'s(n-1)'->>'sn' for the first n field names
RECURSIVE Accessors(_, _)
Accessors(i, n) ==
    IF i = n THEN TextAccessor(FieldNames[i])
    ELSE JsonAccessor(FieldNames[i]) \o Accessors(i + 1, n)

IsPrefix(p, s) == Len(p) <= Len(s) /\ SubSeq(s, 1, Len(p)) = p

\* C21: a field path of n >= 1 segments at top level compiles to data, then
\* ->'s' for every segment but the last, then ->>'s' for the last one (a.b.c
\* gives data->'a'->'b'->>'c'); an identifier on its own gives data->>'name',
\* and the first identifier of a longer path is not given the prefix data->>.
PathAccessors ==
    /\ \A n \in 1..MaxPath :
            LET r == makeSQL(Path(n), 0)
            IN  /\ ~r.panic
                /\ r.sql = <<"d", "a", "t", "a">> \o Accessors(1, n)
                /\ n > 1 => ~IsPrefix(<<"d", "a", "t", "a">> \o TextAccessor(FieldNames[1]),
                                      r.sql)
                /\ fs.filter = Path(n) => fs.status = "ok" /\ fs.sql = r.sql
    /\ makeSQL(Ident(<<"n", "a", "m", "e">>), 0).sql
            = <<"d", "a", "t", "a", "-", ">", ">", "'", "n", "a", "m", "e", "'">>
    /\ fs.filter \in Comparisons /\ fs.status = "ok" =>
            IsPrefix(<<"(">> \o makeSQL(fs.filter.args[1], 0).sql \o <<" ">>, fs.sql)

PathAccessorsWitness ==
    /\ fs.status = "ok"
    /\ fs.filter = Path(3)
    /\ fs.sql = <<"d", "a", "t", "a", "-", ">", "'", "a", "'", "-", ">", "'", "b", "'",
                  "-", ">", ">", "'", "c", "'">>

\* C22: the has operator on a field path and a string literal v compiles to
\* (lhs like '%v%'), the pattern holding the whole of v between two wildcards.
HasKeepsValue ==
    \A p \in Paths, v \in StringValues :
        LET filter == Call("Has", <<p, Const("string", v)>>)
            r == FilterSQLParseFilter(filter, 0)
            text == <<"(">> \o makeSQL(p, 0).sql \o <<" ", "l", "i", "k", "e", " ">>
                        \o <<"'", "%">> \o v \o <<"%", "'">> \o <<")">>
        IN  /\ ~r.panic
            /\ r.sql = text
            /\ fs.filter = filter => fs.status = "ok" /\ fs.sql = text

\* the values that fs.selects takes while makeSQL(node) runs from the value
\* selects
RECURSIVE Depths(_, _)
Depths(node, selects) ==
    CASE node.kind = "call" ->
            {selects} \cup UNION {Depths(node.args[i],
                                         ArgNames(SubSeq(node.args, 1, i - 1), selects).selects) :
                                        i \in 1..Len(node.args)}
      [] node.kind = "select" ->
            LET retStr == sqlFromSelect(node, selects + 1)
            IN  {selects, selects + 1, retStr.selects, retStr.selects - 1}
                    \cup Depths(node.operand, selects + 1)
      [] OTHER -> {selects}

\* C24: the counter of a FilterSQL value is 0 before and after every call of
\* ParseFilter and never below 0 during one, and what a FilterSQL value that
\* has compiled other filters before returns for a filter is what a fresh one
\* returns for it.
CounterBalanced ==
    /\ fs.selects = 0
    /\ \A filter \in FilterInputs :
            /\ FilterSQLParseFilter(filter, 0).selects = 0
            /\ filter # Unparseable => \A d \in Depths(filter, 0) : d >= 0
    /\ fs.status \in {"ok", "logged"} => fs.sql = FilterSQLParseFilter(fs.filter, 0).sql

CounterBalancedWitness ==
    /\ fs.reused
    /\ fs.status = "ok"
    /\ fs.selects = 0
    /\ fs.filter = Call("Equals", <<Path(3), Const("string", <<"v">>)>>)
    /\ fs.sql = <<"(", "d", "a", "t", "a">> \o Accessors(1, 3)
                    \o <<" ", "=", " ", "'", "v", "'", ")">>
    /\ 2 \in Depths(fs.filter, 0)

(***************************************************************************)
(* Pages of several rows: the tables are loaded with up to MaxListed rows  *)
(* in all (projects, and the notes and occurrences of project p1), notes   *)
(* are deleted again, and the three List methods are called with page      *)
(* tokens for every watermark.                                             *)
(***************************************************************************)
\* rows loaded in all for a listing
MaxListed == 3

ListedPids == {"p1", "p2", "p3"}
ListedNids == {"n1", "n2", "n3"}
ListedOids == {"o1", "o2", "o3"}

LoadProject(pID) ==
    /\ Inserted < MaxListed
    /\ Returns(Called("CreateProject"),
               CreateProject(pID, [EmptyMsg EXCEPT !.name = FormatProject(pID)], "none"))

LoadNote(nID, n) ==
    /\ Inserted < MaxListed
    /\ Returns(Called("CreateNote"), CreateNote("p1", nID, n, "none"))

LoadOccurrence(id, o) ==
    /\ Inserted < MaxListed
    /\ Returns(Called("CreateOccurrence"), CreateOccurrence("p1", id, o, "none"))

\* the page tokens of the store for the watermarks 1..MaxListed, and none
PageTokens == {EmptyToken} \cup {encryptInt64(w, Key1, now).token : w \in 1..MaxListed}

PageFilters == {NoFilter, EqFilter("body", "A")}

InitPages ==
    /\ EmptyTables
    /\ now = 1
    /\ pg = BothUp(KeyA, KeyA)
    /\ boot = IdleBoot
    /\ res = IdleRes
    /\ cur = IdleCur
    /\ batch = IdleBatch
    /\ scan = IdleScan
    /\ fs = IdleFs
    /\ walk = IdleWalk

NextPages ==
    \/ \E pID \in ListedPids : LoadProject(pID)
    \/ \E nID \in ListedNids, n \in NoteInputs : LoadNote(nID, n)
    \/ \E id \in ListedOids, o \in ListOccurrenceInputs : LoadOccurrence(id, o)
    \/ \E nID \in ListedNids : DeleteNoteCall("p1", nID, "none")
    \/ \E k \in PageSizes, tok \in PageTokens : ListProjectsCall("r1", NoFilter, k, tok, "none")
    \/ \E flt \in PageFilters, k \in PageSizes, tok \in PageTokens :
            ListNotesCall("r1", "p1", flt, tok, k, "none")
    \/ \E flt \in PageFilters, k \in PageSizes, tok \in PageTokens :
            ListOccurrencesCall("r1", "p1", flt, tok, k, "none")

SpecPages == InitPages /\ [][NextPages]_vars

\* C20: the next-token of a List call, when it is not empty, decodes with the
\* store's pagination key to the id of the last row of the returned page; the
\* empty token decodes to the default 0.
TokenIsLastId ==
    \A op \in ListOps : \A flt \in PageFilters, k \in 0..MaxPageSize, tok \in PageTokens :
        LET r == List(op, Key1, IF op = "ListProjects" THEN "" ELSE "p1", flt, tok, k,
                      "none")
        IN  /\ r.next # EmptyToken =>
                /\ r.ids # <<>>
                /\ decryptInt64(r.next, Key1, 0, now) = Last(r.ids)
            /\ r.next = EmptyToken => decryptInt64(r.next, Key1, 0, now) = 0

TokenIsLastIdWitness ==
    /\ res.op = "ListProjects"
    /\ res.n = 2
    /\ res.more
    /\ LET r == ListProjects(Key1, NoFilter, 2, EmptyToken, "none")
       IN  /\ r.ids = <<1, 2>>
           /\ decryptInt64(r.next, Key1, 0, now) = 2
           /\ MaxOf(MatchingIds("ListProjects", "", NoFilter)) = 3

(***************************************************************************)
(* A listing under writes.  One client lists a table page by page: each    *)
(* List call is its page query and, as a later step, the rest of the       *)
(* method; the client presents the token of a page in its next call, at    *)
(* once or hours later.  Other clients create and delete rows in between,  *)
(* until the listing has ended; what their calls return goes to them.      *)
(***************************************************************************)
\* a call r of another client, made before the listing has ended
Concurrently(r) ==
    /\ walk.at \notin {"done", "failed"}
    /\ projects' = r.projects
    /\ notes' = r.notes
    /\ occurrences' = r.occurrences
    /\ seq' = r.seq
    /\ UNCHANGED <<now, pg, boot, res, cur, batch, scan, fs, walk>>

\* a Create call of another client
Creating(r) == Inserted < MaxListed /\ Concurrently(r)

\* the page query of the List call that the client makes with pageToken
WalkQuery(w, pageToken) ==
    LET id == decryptInt64(pageToken, Key1, 0, now)
        rows == Matching(Rows(TableOf(w.op)), PageQuery(w.op, w.filter), w.pID, "", id)
    IN  IF ~Accepted(TableOf(w.op), PageQuery(w.op, w.filter)) \/ w.pageSize < 0
        THEN /\ walk' = [w EXCEPT !.at = "failed"]
             /\ res' = [Called(w.op) EXCEPT !.code = "Internal"]
        ELSE /\ walk' = [w EXCEPT !.at = "max", !.page = OrderLimit(rows, w.pageSize)]
             /\ UNCHANGED res

\* the first List call of the listing, with the empty token
WalkFirstPage(op, pID, filter, pageSize) ==
    /\ walk.at = "idle"
    /\ WalkQuery([walk EXCEPT !.op = op, !.pID = pID, !.filter = filter,
                              !.pageSize = pageSize,
                              !.before = MatchingIds(op, pID, filter)], EmptyToken)
    /\ UNCHANGED <<tables, now, pg, boot, cur, batch, scan, fs>>

\* the next List call of the listing, with the token of the last one
WalkNextPage ==
    /\ walk.at = "next"
    /\ WalkQuery([walk EXCEPT !.stale = @ \/ TokenKind(walk.token, Key1, now) # "fresh"],
                 walk.token)
    /\ UNCHANGED <<tables, now, pg, boot, cur, batch, scan, fs>>

\* the rest of the List call in flight: the max-id query and the return
WalkMax ==
    LET r == ListRows(TableOf(walk.op), walk.page, MaxQuery(walk.op, walk.filter), Key1,
                      walk.pID, "none")
    IN  /\ walk.at = "max"
        /\ res' = [Called(walk.op) EXCEPT !.code = r.code, !.n = Len(r.ids),
                                          !.more = (r.next # EmptyToken)]
        /\ walk' = IF r.code # "OK" THEN [walk EXCEPT !.at = "failed"]
                   ELSE [walk EXCEPT !.at = IF r.next = EmptyToken THEN "done" ELSE "next",
                                     !.token = r.next,
                                     !.seen = @ \o r.ids]
        /\ UNCHANGED <<tables, now, pg, boot, cur, batch, scan, fs>>

\* the client holds its token for an hour
WalkWait == walk.at = "next" /\ Tick(MaxTime + Hour) /\ UNCHANGED walk

InitWalk ==
    /\ EmptyTables
    /\ now = 1
    /\ pg = BothUp(KeyA, KeyA)
    /\ boot = IdleBoot
    /\ res = IdleRes
    /\ cur = IdleCur
    /\ batch = IdleBatch
    /\ scan = IdleScan
    /\ fs = IdleFs
    /\ walk = IdleWalk

NextWalk ==
    \/ \E pID \in ListedPids :
            Creating(CreateProject(pID, [EmptyMsg EXCEPT !.name = FormatProject(pID)],
                                   "none"))
    \/ \E nID \in ListedNids, n \in NoteInputs : Creating(CreateNote("p1", nID, n, "none"))
    \/ \E id \in ListedOids, o \in ListOccurrenceInputs :
            Creating(CreateOccurrence("p1", id, o, "none"))
    \/ \E pID \in ListedPids : Concurrently(DeleteProject(pID, "none"))
    \/ \E nID \in ListedNids : Concurrently(DeleteNote("p1", nID, "none"))
    \/ \E oID \in ListedOids : Concurrently(DeleteOccurrence("p1", oID, "none"))
    \/ \E op \in ListOps, flt \in PageFilters, k \in PageSizes :
            WalkFirstPage(op, IF op = "ListProjects" THEN "" ELSE "p1", flt, k)
    \/ WalkNextPage
    \/ WalkMax
    \/ WalkWait

SpecWalk == InitWalk /\ [][NextWalk]_vars

StrictlyIncreasing(ids) == \A i \in 1..(Len(ids) - 1) : ids[i] < ids[i + 1]

\* the listing has not given a row twice, has given its rows by rising id, and,
\* once it ended with the empty token, has given every matching row that was
\* there before its first page query and is there still
WalkSound ==
    /\ \A i, j \in 1..Len(walk.seen) : i # j => walk.seen[i] # walk.seen[j]
    /\ StrictlyIncreasing(walk.seen)
    /\ walk.at = "done" =>
            \A id \in walk.before \cap MatchingIds(walk.op, walk.pID, walk.filter) :
                \E i \in 1..Len(walk.seen) : walk.seen[i] = id

====
